---- MODULE Spec2Model ----
(***************************************************************************)
(* A model of the SiteAnalysis_GEE services.                               *)
(*                                                                         *)
(*  - SpecRegion: the region resolution helper that every standalone       *)
(*    dataset service embeds (_get_region_bounds, the GAUL lookups and     *)
(*    _get_region_bounds_with_zoom).                                       *)
(*  - Spec: the primary service (POST /analyze-location and                *)
(*    POST /analyze-polygon) with its request schema and the analysis      *)
(*    core it calls.                                                       *)
(*  - SpecCore: single operations of the analysis core, of the             *)
(*    configuration and of the start-up, each run on its own.              *)
(*  - SpecServices: requests in flight at the same time in the             *)
(*    administrative-boundaries and VIIRS services and the primary         *)
(*    service, with the clock and the directory their maps are saved in.   *)
(*                                                                         *)
(* Text is modelled as a sequence of one-character strings so that         *)
(* str.lower() and the Engine's stringContains filter are computed and     *)
(* not assumed.  Degrees are modelled in tenths of a degree (68.0 is 680). *)
(* An optional value is a sequence: <<>> is None and <<v>> is the value v. *)
(***************************************************************************)
EXTENDS Integers, Sequences, FiniteSets, TLC

VARIABLES
    regionReq,    \* the last region-resolution call: service and arguments
    regionResp,   \* what it returned: the bounds and the zoom hint
    gaulLog,      \* the sources that call consulted, in order
    request,      \* primary service: the last HTTP request
    response,     \* primary service: the response the client received
    engineCalls,  \* primary service: Engine round trips made for that request
    unitCall,     \* a single operation run on its own: its name and arguments
    unitResult,   \* what that operation returned or raised
    now,          \* standalone services: the wall clock, in seconds
    files,        \* standalone services: the working directory, name to content
    handlers      \* standalone services: the requests in flight and how far each is

vars == <<regionReq, regionResp, gaulLog, request, response, engineCalls, unitCall, unitResult,
          now, files, handlers>>

regionVars == <<regionReq, regionResp, gaulLog>>
primaryVars == <<request, response, engineCalls>>
coreVars == <<unitCall, unitResult>>
serviceVars == <<now, files, handlers>>

None == <<>>
Some(v) == <<v>>

-----------------------------------------------------------------------------
(* Text *)

UpperChars == <<"A","B","C","D","E","F","G","H","I","J","K","L","M",
                "N","O","P","Q","R","S","T","U","V","W","X","Y","Z">>
LowerChars == <<"a","b","c","d","e","f","g","h","i","j","k","l","m",
                "n","o","p","q","r","s","t","u","v","w","x","y","z">>

LowerChar(c) ==
    IF \E i \in DOMAIN UpperChars : UpperChars[i] = c
    THEN LowerChars[CHOOSE i \in DOMAIN UpperChars : UpperChars[i] = c]
    ELSE c

\* A case-sensitive lookup: the text as it came.
lower_identity(s) == s

\* str.lower()
lower(s) == [i \in DOMAIN s |-> LowerChar(s[i])]

\* ee.Filter.stringContains: case-sensitive substring containment.
stringContains(hay, needle) ==
    \E i \in 0..(Len(hay) - Len(needle)) :
        SubSeq(hay, i + 1, i + Len(needle)) = needle

s_india == <<"i","n","d","i","a">>
s_mumbai == <<"m","u","m","b","a","i">>
s_delhi == <<"d","e","l","h","i">>
s_bangalore == <<"b","a","n","g","a","l","o","r","e">>
s_kolkata == <<"k","o","l","k","a","t","a">>
s_chennai == <<"c","h","e","n","n","a","i">>
s_hyderabad == <<"h","y","d","e","r","a","b","a","d">>
s_pune == <<"p","u","n","e">>
s_ahmedabad == <<"a","h","m","e","d","a","b","a","d">>
s_jaipur == <<"j","a","i","p","u","r">>

s_INDIA == <<"I","N","D","I","A">>
s_India == <<"I","n","d","i","a">>
s_Mumbai == <<"M","u","m","b","a","i">>
s_Pune == <<"P","u","n","e">>
s_Goa == <<"G","o","a">>
s_goa == <<"g","o","a">>
s_NorthGoa == <<"N","o","r","t","h"," ","G","o","a">>
s_Panaji == <<"P","a","n","a","j","i">>
s_Bihar == <<"B","i","h","a","r">>
s_Patna == <<"P","a","t","n","a">>
s_Punjab == <<"P","u","n","j","a","b">>
s_Patiala == <<"P","a","t","i","a","l","a">>
s_Pat == <<"P","a","t">>
s_Maharashtra == <<"M","a","h","a","r","a","s","h","t","r","a">>
s_Xyz == <<"X","y","z">>

-----------------------------------------------------------------------------
(* Region resolution helper (standalone services) *)

\* Largest explicit bounding-box coordinate tried, in tenths of a degree.
MaxCoord == 1

CoordInputs == {None} \cup {Some(c) : c \in 0..MaxCoord}

\* The services that embed the helper; all but open_buildings also have
\* _get_region_bounds_with_zoom.
ZoomServices == {"hansen_forest", "jrc_water", "merit_hydro",
                 "open_buildings_temporal", "viirs"}
Services == ZoomServices \cup {"open_buildings"}

RegionInputs == {s_india, s_INDIA, s_India, s_mumbai, s_Mumbai, s_Pune,
                 s_Goa, s_goa, s_Bihar, s_Pat, s_Patna, s_Xyz}

StateHints == {None, s_Bihar, s_Goa}

\* ee.Geometry.Rectangle([west, south, east, north])
Rectangle(coords) == [type |-> "Rectangle", coords |-> coords]

IndiaRect == <<680, 60, 970, 370>>

predefined_regions ==
    (s_india :> <<680, 60, 970, 370>>) @@
    (s_mumbai :> <<727, 188, 732, 193>>) @@
    (s_delhi :> <<768, 284, 775, 289>>) @@
    (s_bangalore :> <<774, 128, 778, 132>>) @@
    (s_kolkata :> <<882, 224, 885, 227>>) @@
    (s_chennai :> <<801, 128, 803, 132>>) @@
    (s_hyderabad :> <<783, 173, 786, 175>>) @@
    (s_pune :> <<737, 184, 739, 186>>) @@
    (s_ahmedabad :> <<724, 230, 727, 231>>) @@
    (s_jaipur :> <<757, 268, 759, 270>>)

\* A sample of the India features of FAO/GAUL_SIMPLIFIED_500m/2015/level2:
\* one feature per district, with its state name and its bounding box.
india_boundaries == {
    [ADM1_NAME |-> s_Goa, ADM2_NAME |-> s_NorthGoa, box |-> <<737, 153, 742, 158>>],
    [ADM1_NAME |-> s_Goa, ADM2_NAME |-> s_Panaji, box |-> <<738, 149, 743, 155>>],
    [ADM1_NAME |-> s_Bihar, ADM2_NAME |-> s_Patna, box |-> <<848, 252, 855, 258>>],
    [ADM1_NAME |-> s_Punjab, ADM2_NAME |-> s_Patiala, box |-> <<759, 298, 768, 307>>],
    [ADM1_NAME |-> s_Maharashtra, ADM2_NAME |-> s_Pune, box |-> <<734, 179, 752, 194>>] }

Min(S) == CHOOSE x \in S : \A y \in S : x <= y
Max(S) == CHOOSE x \in S : \A y \in S : x >= y

\* features.geometry().bounds(): the bounding rectangle of the union.
bounds_of(features) ==
    Rectangle(<< Min({f.box[1] : f \in features}), Min({f.box[2] : f \in features}),
                 Max({f.box[3] : f \in features}), Max({f.box[4] : f \in features}) >>)

\* The features the district filter keeps.
matched_districts(district_name, state_name) ==
    {f \in india_boundaries :
        /\ stringContains(f.ADM2_NAME, district_name)
        /\ (state_name # None => stringContains(f.ADM1_NAME, state_name))}

\* The features the state filter keeps.
state_boundaries(state_name) ==
    {f \in india_boundaries : stringContains(f.ADM1_NAME, state_name)}

\* _get_district_bounds_from_gaul: None on zero matches and on any Engine
\* error (engineFails), else the bounds of the matches.
get_district_bounds_from_gaul(district_name, state_name, engineFails) ==
    IF engineFails THEN None
    ELSE IF matched_districts(district_name, state_name) = {} THEN None
    ELSE Some(bounds_of(matched_districts(district_name, state_name)))

\* _get_state_bounds_from_gaul
get_state_bounds_from_gaul(state_name, engineFails) ==
    IF engineFails THEN None
    ELSE IF state_boundaries(state_name) = {} THEN None
    ELSE Some(bounds_of(state_boundaries(state_name)))

\* A truthiness test in place of "is not None": 0.0 counts as missing.
all_supplied_truthy(west, south, east, north) ==
    \A coord \in {west, south, east, north} : coord # None /\ coord # Some(0)

\* all(coord is not None for coord in [west, south, east, north])
all_supplied(west, south, east, north) ==
    \A coord \in {west, south, east, north} : coord # None

\* One entry of the record of sources consulted.
Consulted(source, outcome) == [source |-> source, outcome |-> outcome]

\* How a GAUL lookup ended: the Engine failed, nothing matched, or a match.
Outcome(found, engineFails) ==
    IF engineFails THEN "error" ELSE IF found = None THEN "miss" ELSE "hit"

\* The state lookup tried before the district lookup.
get_region_bounds_state_first(region, west, south, east, north, state_name, dErr, sErr) ==
    LET d == get_district_bounds_from_gaul(region, state_name, dErr)
        st == get_state_bounds_from_gaul(region, sErr)
    IN  IF all_supplied(west, south, east, north)
        THEN [bounds |-> Rectangle(<<west[1], south[1], east[1], north[1]>>),
              consulted |-> <<>>]
        ELSE IF lower(region) \in DOMAIN predefined_regions
        THEN [bounds |-> Rectangle(predefined_regions[lower(region)]),
              consulted |-> <<Consulted("predefined", "hit")>>]
        ELSE IF st # None
        THEN [bounds |-> st[1],
              consulted |-> <<Consulted("predefined", "miss"),
                              Consulted("gaul_state", "hit")>>]
        ELSE IF d # None
        THEN [bounds |-> d[1],
              consulted |-> <<Consulted("predefined", "miss"),
                              Consulted("gaul_state", Outcome(st, sErr)),
                              Consulted("gaul_district", "hit")>>]
        ELSE [bounds |-> Rectangle(IndiaRect),
              consulted |-> <<Consulted("predefined", "miss"),
                              Consulted("gaul_state", Outcome(st, sErr)),
                              Consulted("gaul_district", Outcome(d, dErr)),
                              Consulted("fallback", "hit")>>]

\* _get_region_bounds.  Returns the geometry and, for the record, the sources
\* consulted on the way with the outcome of each.  dErr / sErr: the Engine
\* fails during the district / state lookup.
get_region_bounds(region, west, south, east, north, state_name, dErr, sErr) ==
    LET d == get_district_bounds_from_gaul(region, state_name, dErr)
        st == get_state_bounds_from_gaul(region, sErr)
    IN  IF all_supplied(west, south, east, north)
        THEN [bounds |-> Rectangle(<<west[1], south[1], east[1], north[1]>>),
              consulted |-> <<>>]
        ELSE IF lower(region) \in DOMAIN predefined_regions
        THEN [bounds |-> Rectangle(predefined_regions[lower(region)]),
              consulted |-> <<Consulted("predefined", "hit")>>]
        ELSE IF d # None
        THEN [bounds |-> d[1],
              consulted |-> <<Consulted("predefined", "miss"),
                              Consulted("gaul_district", "hit")>>]
        ELSE IF st # None
        THEN [bounds |-> st[1],
              consulted |-> <<Consulted("predefined", "miss"),
                              Consulted("gaul_district", Outcome(d, dErr)),
                              Consulted("gaul_state", "hit")>>]
        ELSE [bounds |-> Rectangle(IndiaRect),
              consulted |-> <<Consulted("predefined", "miss"),
                              Consulted("gaul_district", Outcome(d, dErr)),
                              Consulted("gaul_state", Outcome(st, sErr)),
                              Consulted("fallback", "hit")>>]

PredefinedCities == {s_mumbai, s_delhi, s_bangalore, s_kolkata, s_chennai,
                     s_hyderabad, s_pune, s_ahmedabad, s_jaipur}

\* The zoom levels _get_region_bounds_with_zoom hands out.
ZoomIndia == 5
ZoomCustom == 8
ZoomCity(service) == IF service = "open_buildings_temporal" THEN 12 ELSE 10

\* One zoom level for a GAUL district or state in every service.
ZoomGaulUniform(service) == 8

ZoomGaul(service) == IF service = "open_buildings_temporal" THEN 10 ELSE 8

\* The zoom chain of _get_region_bounds_with_zoom, in the source's order.
zoom_level(service, region, west, south, east, north) ==
    IF lower(region) = s_india THEN ZoomIndia
    ELSE IF all_supplied(west, south, east, north) THEN ZoomCustom
    ELSE IF lower(region) \in PredefinedCities THEN ZoomCity(service)
    ELSE ZoomGaul(service)

\* _get_region_bounds_with_zoom
get_region_bounds_with_zoom(service, region, west, south, east, north, state_name, dErr, sErr) ==
    [bounds |-> get_region_bounds(region, west, south, east, north, state_name, dErr, sErr).bounds,
     zoom |-> Some(zoom_level(service, region, west, south, east, north)),
     consulted |-> get_region_bounds(region, west, south, east, north, state_name, dErr, sErr).consulted]

RegionArgs(service, region, west, south, east, north, state_name) ==
    [service |-> service, region |-> region, west |-> west, south |-> south,
     east |-> east, north |-> north, state_name |-> state_name]

RegionCalls ==
    {RegionArgs(service, region, west, south, east, north, state_name) :
        service \in Services, region \in RegionInputs, west \in CoordInputs,
        south \in CoordInputs, east \in CoordInputs, north \in CoordInputs,
        state_name \in StateHints}

\* An endpoint that needs a map resolves its region with a zoom hint.
ResolveWithZoom ==
    /\ regionResp = None
    /\ regionReq.service \in ZoomServices
    /\ \E dErr \in BOOLEAN, sErr \in BOOLEAN :
        LET a == regionReq
            r == get_region_bounds_with_zoom(a.service, a.region, a.west, a.south,
                                             a.east, a.north, a.state_name, dErr, sErr)
        IN /\ regionResp' = Some([bounds |-> r.bounds, zoom |-> r.zoom])
           /\ gaulLog' = r.consulted
    /\ UNCHANGED <<regionReq, primaryVars, coreVars, serviceVars>>

\* An endpoint without a map (every endpoint of open_buildings, and the
\* statistics endpoints of the others) resolves the bounds alone.
ResolveBounds ==
    /\ regionResp = None
    /\ \E dErr \in BOOLEAN, sErr \in BOOLEAN :
        LET a == regionReq
            r == get_region_bounds(a.region, a.west, a.south, a.east, a.north,
                                   a.state_name, dErr, sErr)
        IN /\ regionResp' = Some([bounds |-> r.bounds, zoom |-> None])
           /\ gaulLog' = r.consulted
    /\ UNCHANGED <<regionReq, primaryVars, coreVars, serviceVars>>

\* The helper keeps no state between calls: a behaviour is one call, with the
\* arguments drawn at the start.
InitRegion ==
    /\ regionReq \in RegionCalls
    /\ regionResp = None
    /\ gaulLog = <<>>
    /\ request = None
    /\ response = None
    /\ engineCalls = <<>>
    /\ unitCall = None
    /\ unitResult = None
    /\ now = 0
    /\ files = <<>>
    /\ handlers = <<>>

NextRegion == ResolveWithZoom \/ ResolveBounds

SpecRegion == InitRegion /\ [][NextRegion]_vars

-----------------------------------------------------------------------------
(* Primary service: the request schema (app/models.py) *)

\* Field(..., ge=, le=) limits of LocationRequest and the buffer default.
\* Latitude and longitude are whole degrees here, the buffer whole metres.
LatMin == -90
LatMax == 90
LonMin == -180
LonMax == 180
BufferMin == 100
BufferMax == 5000
DefaultBuffer == 750

\* Longest generated layers list.
MaxLayers == 2

\* Most Engine calls that misbehave within one request.
MaxFaults == 1

\* Default layers without the land cover.
default_layers_three == <<"ndvi", "elevation", "slope">>

default_layers == <<"ndvi", "elevation", "slope", "landcover">>

\* An allow-list that also admits the two sections analyze_location has
\* beyond the nine.
supported_layers_eleven ==
    <<"ndvi", "ndbi", "ndwi", "elevation", "slope", "landcover", "water_occurrence",
      "rainfall", "buildings", "administrative", "vegetation">>

supported_layers == <<"ndvi", "ndbi", "ndwi", "elevation", "slope",
                      "landcover", "water_occurrence", "rainfall", "buildings">>

Range(seq) == {seq[i] : i \in DOMAIN seq}

\* Field(ge=lo, le=hi) with the bounds themselves rejected.
ge_le_strict(v, lo, hi) == lo < v /\ v < hi

\* Field(ge=lo, le=hi)
ge_le(v, lo, hi) == lo <= v /\ v <= hi

\* The message of the ValueError validate_layers raises.
UnsupportedLayer(layer) ==
    [msg |-> "Unsupported layer", layer |-> layer, supported |-> supported_layers]

\* A validator that looks at the first name only.
validate_layers_first_only(v) ==
    IF v # <<>> /\ v[1] \notin Range(supported_layers)
    THEN [ok |-> FALSE, error |-> UnsupportedLayer(v[1])]
    ELSE [ok |-> TRUE, value |-> v]

\* LocationRequest.validate_layers: the first name outside the allow-list
\* raises; otherwise the list is returned as it came.
validate_layers(v) ==
    IF \E i \in DOMAIN v : v[i] \notin Range(supported_layers)
    THEN LET i == CHOOSE i \in DOMAIN v :
                    /\ v[i] \notin Range(supported_layers)
                    /\ \A j \in 1..(i - 1) : v[j] \in Range(supported_layers)
         IN [ok |-> FALSE, error |-> UnsupportedLayer(v[i])]
    ELSE [ok |-> TRUE, value |-> v]

\* LocationRequest(**body): every field is validated and the errors of all
\* fields are collected; a field left out takes its default, unvalidated.
LocationRequest(body) ==
    LET buffer_m == IF body.buffer_m = None THEN DefaultBuffer ELSE body.buffer_m[1]
        layers == IF body.layers = None
                  THEN [ok |-> TRUE, value |-> default_layers]
                  ELSE validate_layers(body.layers[1])
        errors ==
            (IF ge_le(body.lat, LatMin, LatMax) THEN {} ELSE {[loc |-> "lat"]})
            \cup (IF ge_le(body.lon, LonMin, LonMax) THEN {} ELSE {[loc |-> "lon"]})
            \cup (IF ge_le(buffer_m, BufferMin, BufferMax) THEN {} ELSE {[loc |-> "buffer_m"]})
            \cup (IF layers.ok THEN {} ELSE {[loc |-> "layers", error |-> layers.error]})
    IN  IF errors = {}
        THEN [ok |-> TRUE,
              value |-> [lat |-> body.lat, lon |-> body.lon,
                         buffer_m |-> buffer_m, layers |-> layers.value]]
        ELSE [ok |-> FALSE, errors |-> errors]

-----------------------------------------------------------------------------
(* Primary service: numbers.  Integers are 32 bits wide here, so a number
   is an integer count of a unit small enough for the digits the code keeps:
   millionths for the statistics, and hundredths for the hectares, metres and
   percentages that are rounded to two decimals. *)

Pow10(n) == IF n = 0 THEN 1 ELSE IF n = 1 THEN 10 ELSE IF n = 2 THEN 100
            ELSE IF n = 3 THEN 1000 ELSE IF n = 4 THEN 10000
            ELSE IF n = 5 THEN 100000 ELSE 1000000

\* The integer nearest to num / den, a tie going to the even one, as
\* Python's round does.
RoundHalfEven(num, den) ==
    LET q == num \div den
        r == num % den
    IN  IF 2 * r < den THEN q
        ELSE IF 2 * r > den THEN q + 1
        ELSE IF q % 2 = 0 THEN q ELSE q + 1

\* round(value, decimals) of a number in millionths: the nearest multiple of
\* 10^-decimals.
round(value, decimals) ==
    RoundHalfEven(value, Pow10(6 - decimals)) * Pow10(6 - decimals)

\* Long division: k more decimal digits of a quotient whose integer part is
\* qr[1] and whose remainder so far is qr[2], for the divisor den.
RECURSIVE DivDigits(_, _, _)
DivDigits(qr, den, k) ==
    IF k = 0 THEN qr
    ELSE DivDigits(<<qr[1] * 10 + (qr[2] * 10) \div den, (qr[2] * 10) % den>>,
                   den, k - 1)

\* round((part / whole) * 100, 2), in hundredths of a percent.
round_percentage(part, whole) ==
    LET qr == DivDigits(<<part \div whole, part % whole>>, whole, 4)
    IN  IF 2 * qr[2] < whole THEN qr[1]
        ELSE IF 2 * qr[2] > whole THEN qr[1] + 1
        ELSE IF qr[1] % 2 = 0 THEN qr[1] ELSE qr[1] + 1

\* A Python value handed to safe_round: None is <<>>, a finite number v is
\* <<v>> (millionths), and anything else is a pair of its type and a sample:
\* <<"numstr", v>> a string that spells the number v, <<"str", t>> any other
\* string, <<"bool", b>>, <<"list", n>>, <<"special", "nan" | "inf">> the
\* floats that are not finite, <<"int", "huge">> an integer beyond the
\* range of a float.
IsNumber(value) == Len(value) = 1

\* float(value): the float, or the exception float() raises.
float(value) ==
    IF IsNumber(value) THEN [ok |-> TRUE, special |-> "", value |-> value[1]]
    ELSE IF value[1] = "numstr" THEN [ok |-> TRUE, special |-> "", value |-> value[2]]
    ELSE IF value[1] = "bool"
    THEN [ok |-> TRUE, special |-> "", value |-> IF value[2] THEN Pow10(6) ELSE 0]
    ELSE IF value[1] = "special" THEN [ok |-> TRUE, special |-> value[2], value |-> 0]
    ELSE IF value[1] = "str" THEN [ok |-> FALSE, exc |-> "ValueError"]
    ELSE IF value[1] = "int" THEN [ok |-> FALSE, exc |-> "OverflowError"]
    ELSE [ok |-> FALSE, exc |-> "TypeError"]

\* safe_round: 0.0 for None and for what float() refuses with a TypeError
\* or a ValueError, the only two exceptions it catches; otherwise the float
\* rounded (nan and inf round to themselves).  The answer is a float
\* (special says which when it is not finite) or the exception that left.
safe_round(value, decimals) ==
    IF value = None
    THEN [raised |-> FALSE, special |-> "", value |-> 0]
    ELSE IF float(value).ok
    THEN [raised |-> FALSE, special |-> float(value).special,
          value |-> round(float(value).value, decimals)]
    ELSE IF float(value).exc \in {"TypeError", "ValueError"}
    THEN [raised |-> FALSE, special |-> "", value |-> 0]
    ELSE [raised |-> TRUE, exc |-> float(value).exc]

-----------------------------------------------------------------------------
(* Primary service: the Engine as the analysis core sees it *)

\* One Engine round trip: what is asked (op), for which layer, and for the
\* land-cover loop which class.
Call(op, layer, class) == [op |-> op, layer |-> layer, class |-> class]

\* The class names with the last one lost.
class_names_short ==
    <<"tree_cover", "shrubland", "grassland", "cropland", "built_up",
      "bare_sparse_vegetation", "snow_ice", "permanent_water_bodies",
      "herbaceous_wetland", "mangroves">>

class_names == <<"tree_cover", "shrubland", "grassland", "cropland", "built_up",
                 "bare_sparse_vegetation", "snow_ice", "permanent_water_bodies",
                 "herbaceous_wetland", "mangroves", "moss_lichen">>

\* The layers analyze_location looks for, in the order of its if-statements.
LayerOrder == <<"ndvi", "ndbi", "ndwi", "elevation", "slope", "landcover",
                "water_occurrence", "rainfall", "buildings", "administrative",
                "vegetation">>

\* The layers whose numbers come from calculate_statistics.
StatLayers == {"ndvi", "ndbi", "ndwi", "elevation", "slope",
               "water_occurrence", "rainfall"}

\* The ways one Engine call can misbehave: raise ("error") or answer with
\* no data ("none").
FaultKinds(call) ==
    IF call.op \in {"stats", "class_area", "buildings_sample"}
    THEN {"error", "none"} ELSE {"error"}

\* How call ends under the faults of this request.
OutcomeOf(call, faults) ==
    IF \E f \in faults : f.call = call
    THEN (CHOOSE f \in faults : f.call = call).kind
    ELSE "ok"

\* What the Engine answers when it answers (sample data, millionths).  A
\* sample sits halfway between two roundings only where the binary float
\* does too (920.25), so that the decimal rounding here is Python's.
EngineStat(layer, stat) ==
    IF layer = "ndvi" THEN
        (IF stat = "mean" THEN 456700 ELSE IF stat = "stdDev" THEN 120449
         ELSE IF stat = "min" THEN -101300 ELSE 812345)
    ELSE IF layer = "ndbi" THEN (IF stat = "mean" THEN -52300 ELSE 80501)
    ELSE IF layer = "ndwi" THEN (IF stat = "mean" THEN -234567 ELSE 99999)
    ELSE IF layer = "elevation" THEN
        (IF stat = "mean" THEN 920250000 ELSE IF stat = "stdDev" THEN 4370000
         ELSE IF stat = "min" THEN 905000000 ELSE 931000000)
    ELSE IF layer = "slope" THEN (IF stat = "mean" THEN 2347000 ELSE 1117000)
    ELSE IF layer = "water_occurrence" THEN 1007000
    ELSE 905449999

\* roi.area().getInfo() in square metres, for a circle of the given radius.
EngineRoiArea(buffer_m) == ((buffer_m * buffer_m) \div 113) * 355

\* roi.perimeter().getInfo() in thousandths of a metre.
EngineRoiPerimeter(buffer_m) == buffer_m * 6283

\* Square metres of each land-cover class in 1000 square metres of the ROI.
EngineClassShare(class) ==
    IF class = "built_up" THEN 612 ELSE IF class = "tree_cover" THEN 251
    ELSE IF class = "grassland" THEN 87 ELSE IF class = "cropland" THEN 50
    ELSE 0

EngineClassArea(class, buffer_m) ==
    (EngineRoiArea(buffer_m) \div 1000) * EngineClassShare(class) + EngineClassShare(class) \div 7

EngineBuildingCount == 3

Stats == {"mean", "stdDev", "min", "max"}

\* stats.getInfo(): the reducer's dictionary, every value None when the
\* Engine has no data for the region.
EngineReduceRegion(layer, outcome) ==
    [k \in Stats |-> IF outcome = "none" THEN None ELSE Some(EngineStat(layer, k))]

-----------------------------------------------------------------------------
(* Primary service: the analysis core (app/gee_utils.py) *)

\* calculate_statistics: the reduction is not guarded, so an Engine error
\* leaves the function; a None in the answer becomes 0.0.
calculate_statistics(layer, outcome) ==
    IF outcome = "error"
    THEN [raised |-> TRUE, value |-> [k \in Stats |-> 0]]
    ELSE [raised |-> FALSE,
          value |-> [k \in Stats |->
                        IF EngineReduceRegion(layer, outcome)[k] = None THEN 0
                        ELSE EngineReduceRegion(layer, outcome)[k][1]]]

\* get_visualization_url: the thumbnail URL, None on any Engine error.
get_visualization_url(layer, outcome) ==
    IF outcome = "error" THEN [raised |-> FALSE, value |-> None]
    ELSE [raised |-> FALSE, value |-> Some([thumb |-> layer])]

\* One class of calculate_landcover_histogram: the class area as a
\* percentage of the ROI area, 0.0 when either Engine call fails or the
\* class area comes back as None.  areaOutcome / totalOutcome: how the two
\* getInfo() calls end.
landcover_percentage(class, buffer_m, areaOutcome, totalOutcome) ==
    IF areaOutcome # "ok" \/ totalOutcome # "ok" \/ EngineRoiArea(buffer_m) = 0
    THEN 0
    ELSE round_percentage(EngineClassArea(class, buffer_m), EngineRoiArea(buffer_m))

\* calculate_landcover_histogram: one entry per class name.
calculate_landcover_histogram(buffer_m, faults) ==
    [c \in Range(class_names) |->
        landcover_percentage(c, buffer_m,
            OutcomeOf(Call("class_area", "landcover", c), faults),
            OutcomeOf(Call("roi_area", "landcover", c), faults))]

UnitCall(fn, args) == [fn |-> fn, args |-> args]

Returned(value) == [raised |-> FALSE, value |-> value]

Raised(exc) == [raised |-> TRUE, exc |-> exc]

\* ---- configuration and bootstrap ----

\* The settings get_gee_credentials reads. key_json is what json.loads and
\* the credential library make of GEE_SERVICE_ACCOUNT_KEY_JSON: "unset"
\* (None), "empty" (the empty string), "malformed" (JSONDecodeError),
\* "not_a_key" (JSON the library rejects) or "key"; key_file is what the
\* library makes of the file at key_path when the file exists.
Config(key_json, key_path, path_exists, key_file) ==
    [GEE_SERVICE_ACCOUNT_KEY_JSON |-> key_json,
     GEE_SERVICE_ACCOUNT_KEY_PATH |-> key_path,
     path_exists |-> path_exists,
     key_file |-> key_file]

Exception(type, message) == [type |-> type, message |-> message]

Credentials(origin) ==
    [origin |-> origin, scopes |-> <<"https://www.googleapis.com/auth/earthengine">>]

\* from_service_account_info / from_service_account_file
from_service_account(origin, content) ==
    IF content = "key" THEN Returned(Credentials(origin))
    ELSE Raised(Exception("ValueError",
                          <<"Service account info was not in the expected format">>))

\* get_gee_credentials, falling back to the key file when the JSON string
\* does not parse.
get_gee_credentials_fallback(cfg) ==
    IF cfg.GEE_SERVICE_ACCOUNT_KEY_JSON \notin {"unset", "empty", "malformed"}
    THEN from_service_account("info", cfg.GEE_SERVICE_ACCOUNT_KEY_JSON)
    ELSE IF cfg.path_exists
    THEN from_service_account("file", cfg.key_file)
    ELSE Raised(Exception("FileNotFoundError",
                          <<"Service account key file not found at: ",
                            cfg.GEE_SERVICE_ACCOUNT_KEY_PATH>>))

get_gee_credentials(cfg) ==
    IF cfg.GEE_SERVICE_ACCOUNT_KEY_JSON \notin {"unset", "empty"}
    THEN IF cfg.GEE_SERVICE_ACCOUNT_KEY_JSON = "malformed"
         THEN Raised(Exception("ValueError",
                               <<"Invalid JSON in GEE_SERVICE_ACCOUNT_KEY_JSON: ",
                                 "JSONDecodeError">>))
         ELSE from_service_account("info", cfg.GEE_SERVICE_ACCOUNT_KEY_JSON)
    ELSE IF cfg.path_exists
    THEN from_service_account("file", cfg.key_file)
    ELSE Raised(Exception("FileNotFoundError",
                          <<"Service account key file not found at: ",
                            cfg.GEE_SERVICE_ACCOUNT_KEY_PATH,
                            ". Please ensure the file exists or set GEE_SERVICE_ACCOUNT_KEY_JSON environment variable.">>))

\* The Engine at start-up: what ee.Initialize does with credentials and
\* what building the test collection does.
EngineSession(initialize, probe) == [initialize |-> initialize, probe |-> probe]

\* The first failure of the try block of initialize_earth_engine, or None.
initialization_failure(cfg, session) ==
    IF get_gee_credentials(cfg).raised THEN Some(get_gee_credentials(cfg).exc)
    ELSE IF session.initialize = "not_registered"
    THEN Some(Exception("EEException",
                        <<"Project is not registered to use Earth Engine">>))
    ELSE IF session.initialize = "raises"
    THEN Some(Exception("EEException", <<"Could not open the session">>))
    ELSE IF session.probe = "raises"
    THEN Some(Exception("EEException", <<"Collection not accessible">>))
    ELSE None

\* initialize_earth_engine with a handler that lets a failed probe through.
initialize_earth_engine_probe_raises(cfg, session) ==
    LET failure == initialization_failure(cfg, session)
    IN  IF failure = None
        THEN Returned([flag |-> TRUE, printed |-> <<"initialized", "test successful">>])
        ELSE IF failure[1].message = <<"Collection not accessible">>
        THEN Raised(failure[1])
        ELSE Returned([flag |-> FALSE, printed |-> <<"failed", "check configuration">>])

\* initialize_earth_engine: True, or False after printing the diagnostic.
initialize_earth_engine(cfg, session) ==
    LET failure == initialization_failure(cfg, session)
    IN  IF failure = None
        THEN Returned([flag |-> TRUE, printed |-> <<"initialized", "test successful">>])
        ELSE Returned([flag |-> FALSE,
                       printed |->
                          IF failure[1].message =
                                <<"Project is not registered to use Earth Engine">>
                          THEN <<"failed", "register the project">>
                          ELSE IF session.initialize = "ok"
                                  /\ ~get_gee_credentials(cfg).raised
                          THEN <<"initialized", "failed", "check configuration">>
                          ELSE <<"failed", "check configuration">>])

\* lifespan up to its yield: the phase the process is in afterwards.
lifespan(cfg, session) ==
    IF initialize_earth_engine(cfg, session).raised
    THEN Raised(initialize_earth_engine(cfg, session).exc)
    ELSE Returned([phase |-> "serving",
                   initialized |-> initialize_earth_engine(cfg, session).value.flag])

\* ---- the vegetation analysis ----

Distribution(non, low, moderate, dense) ==
    [non_vegetated |-> non, low_vegetation |-> low,
     moderate_vegetation |-> moderate, dense_vegetation |-> dense]

\* The thresholds taken inclusively.
vegetation_distribution_inclusive(ndvi_mean) ==
    IF ndvi_mean <= 200000 THEN Distribution(60, 25, 10, 5)
    ELSE IF ndvi_mean <= 400000 THEN Distribution(30, 40, 20, 10)
    ELSE IF ndvi_mean <= 600000 THEN Distribution(15, 25, 35, 25)
    ELSE Distribution(5, 15, 30, 50)

\* The if/elif chain of analyze_viirs_vegetation on the mean NDVI
\* (millionths); the shares are whole percents.
vegetation_distribution(ndvi_mean) ==
    IF ndvi_mean < 200000 THEN Distribution(60, 25, 10, 5)
    ELSE IF ndvi_mean < 400000 THEN Distribution(30, 40, 20, 10)
    ELSE IF ndvi_mean < 600000 THEN Distribution(15, 25, 35, 25)
    ELSE Distribution(5, 15, 30, 50)

create_fallback_vegetation_data ==
    [viirs_ndvi_mean |-> 350000,
     vegetation_distribution |-> Distribution(20, 30, 35, 15)]

\* analyze_viirs_vegetation, as far as the mean NDVI decides it.  ndvi is
\* what the NDVI reduction does: "error" (it raises), "none" (no data, which
\* calculate_statistics turns into 0.0), "missing" (no NDVI_mean key, so the
\* default 0.3 is taken) or "ok" with the mean.
analyze_viirs_vegetation(ndvi) ==
    LET ndvi_mean == IF ndvi.kind = "none" THEN 0
                     ELSE IF ndvi.kind = "missing" THEN 300000
                     ELSE ndvi.mean
    IN  IF ndvi.kind = "error" THEN create_fallback_vegetation_data
        ELSE [viirs_ndvi_mean |-> safe_round(Some(ndvi_mean), 3).value,
              vegetation_distribution |-> vegetation_distribution(ndvi_mean)]

Min2(a, b) == IF a < b THEN a ELSE b

\* ---- the administrative analysis ----

\* A GAUL feature as the Engine returns it: the three names, each possibly
\* absent from the properties, and the hectares of it inside the geometry.
GaulFeature(country, state, district, area_ha) ==
    [ADM0_NAME |-> country, ADM1_NAME |-> state, ADM2_NAME |-> district,
     area_ha |-> area_ha]

\* props.get(key, 'Unknown')
get_or_unknown(prop) == IF prop = None THEN "Unknown" ELSE prop[1]

admin_unit(feature) ==
    [country |-> get_or_unknown(feature.ADM0_NAME),
     state_province |-> get_or_unknown(feature.ADM1_NAME),
     district_county |-> get_or_unknown(feature.ADM2_NAME),
     area_within_roi_ha |-> feature.area_ha]

\* The unit with the greatest area inside the geometry.
primary_unit_largest(admin_units) ==
    admin_units[CHOOSE i \in DOMAIN admin_units :
                   \A j \in DOMAIN admin_units :
                       \/ admin_units[j].area_within_roi_ha < admin_units[i].area_within_roi_ha
                       \/ (admin_units[j].area_within_roi_ha = admin_units[i].area_within_roi_ha
                           /\ i <= j)]

\* primary_unit = admin_units[0]
primary_unit(admin_units) == admin_units[1]

\* f"{country} > {state} > {district}", as the parts it joins.
full_path(unit) ==
    <<unit.country, " > ", unit.state_province, " > ", unit.district_county>>

\* analyze_administrative_boundaries: features is the match list in the
\* order the Engine returns it; fails names the Engine call that raises
\* ("" for none): the count, the listing, or the area of some feature.
analyze_administrative_boundaries(features, fails) ==
    LET listed == SubSeq(features, 1, Min2(10, Len(features)))
        admin_units == [i \in DOMAIN listed |-> admin_unit(listed[i])]
        names(f(_)) == {f(admin_units[i]) : i \in DOMAIN admin_units}
    IN  IF fails = "count" \/ (features # <<>> /\ fails \in {"list", "area"})
        THEN [administrative_summary |-> [total_units |-> 0, error |-> fails],
              administrative_units |-> <<>>,
              administrative_hierarchy |-> None]
        ELSE IF features = <<>>
        THEN [administrative_summary |->
                 [total_units |-> 0,
                  message |-> "No administrative boundaries found in this area"],
              administrative_units |-> <<>>,
              administrative_hierarchy |-> None]
        ELSE [administrative_summary |->
                 [total_units |-> Len(features),
                  countries |-> names(LAMBDA u : u.country),
                  states_provinces |-> names(LAMBDA u : u.state_province),
                  districts_counties |-> names(LAMBDA u : u.district_county)],
              administrative_units |-> admin_units,
              administrative_hierarchy |->
                 Some([country |-> primary_unit(admin_units).country,
                       state_province |-> primary_unit(admin_units).state_province,
                       district_county |-> primary_unit(admin_units).district_county,
                       full_path |-> full_path(primary_unit(admin_units))])]

\* ---- the building analysis ----

\* 'building_id': f"building_{i+1}"
BuildingIds == <<"building_1", "building_2", "building_3", "building_4",
                 "building_5", "building_6">>

\* The footprint area of the i-th building of the ROI (sample data,
\* millionths of a square metre), growing with i.
BuildingArea(i) == 20000000 + i * 37123456

RECURSIVE SumAreas(_)
SumAreas(n) == IF n = 0 THEN 0 ELSE BuildingArea(n) + SumAreas(n - 1)

\* How the Engine behaves during one building analysis:
\*   load    "ok", "fallback" (get_open_buildings caught an error and
\*           returned an empty collection) or "raises" (its fallback failed)
\*   count   None when buildings.size().getInfo() raises, else Some(n)
\*   area, list, url   "ok" or "error"
\*   sample  "ok", "error" or "nokeys" (statistics without min and max)
\*   failing the buildings whose own look-ups raise
BuildingEngine(load, count, area, sample, list, failing, url) ==
    [load |-> load, count |-> count, area |-> area, sample |-> sample,
     list |-> list, failing |-> failing, url |-> url]

\* The empty dictionary with the surface temperature of the populated one.
empty_building_analysis_warm ==
    [building_summary |->
        [total_buildings |-> 0, analyzed_buildings |-> 0,
         total_building_area_sqm |-> 0, average_building_area_sqm |-> 0,
         max_building_area_sqm |-> 0, min_building_area_sqm |-> 0],
     urban_context |->
        [nighttime_lights_mean |-> 0, population_density_mean |-> 0,
         land_surface_temp_mean |-> 28000000, urban_heat_island_intensity |-> 0],
     individual_buildings |-> <<>>,
     visualization_urls |->
        [buildings_url |-> None, nightlights_url |-> None,
         population_url |-> None, urban_heat_url |-> None]]

\* The dictionary returned for an area without buildings.  The numbers of
\* a building analysis are in millionths (25 is 25000000).
empty_building_analysis ==
    [building_summary |->
        [total_buildings |-> 0, analyzed_buildings |-> 0,
         total_building_area_sqm |-> 0, average_building_area_sqm |-> 0,
         max_building_area_sqm |-> 0, min_building_area_sqm |-> 0],
     urban_context |->
        [nighttime_lights_mean |-> 0, population_density_mean |-> 0,
         land_surface_temp_mean |-> 25000000, urban_heat_island_intensity |-> 0],
     individual_buildings |-> <<>>,
     visualization_urls |->
        [buildings_url |-> None, nightlights_url |-> None,
         population_url |-> None, urban_heat_url |-> None]]


\* The record analyze_buildings_in_area keeps for one building.
building_analysis(i) ==
    [building_id |-> BuildingIds[i],
     area_sqm |-> safe_round(Some(BuildingArea(i)), 2).value,
     confidence |-> 800000,
     dominant_landcover |-> 50]

\* analyze_buildings_in_area
analyze_buildings_in_area(eng, max_buildings) ==
    LET building_count ==
            IF eng.load = "fallback" \/ eng.count = None THEN 0 ELSE eng.count[1]
        total_area == SumAreas(building_count)
        avg_area == total_area \div building_count
        lo == IF eng.sample = "nokeys" THEN avg_area ELSE BuildingArea(1)
        hi == IF eng.sample = "nokeys" THEN avg_area
              ELSE BuildingArea(Min2(10, building_count))
        building_summary ==
            IF eng.area = "error" \/ eng.sample = "error"
            THEN [total_buildings |-> building_count, analyzed_buildings |-> 0,
                  total_building_area_sqm |-> 0, average_building_area_sqm |-> 0,
                  max_building_area_sqm |-> 0, min_building_area_sqm |-> 0]
            ELSE [total_buildings |-> building_count,
                  analyzed_buildings |-> Min2(max_buildings, building_count),
                  total_building_area_sqm |-> safe_round(Some(total_area), 2).value,
                  average_building_area_sqm |-> safe_round(Some(avg_area), 2).value,
                  max_building_area_sqm |-> safe_round(Some(hi), 2).value,
                  min_building_area_sqm |-> safe_round(Some(lo), 2).value]
        analysis_limit == Min2(5, Min2(max_buildings, building_count))
        individual_buildings ==
            IF eng.list = "error" THEN <<>>
            ELSE [k \in 1..Cardinality((1..analysis_limit) \ eng.failing) |->
                    building_analysis(
                        CHOOSE i \in (1..analysis_limit) \ eng.failing :
                            Cardinality({j \in (1..i) \ eng.failing : TRUE}) = k)]
    IN  IF eng.load = "raises" \/ building_count = 0
        THEN empty_building_analysis
        ELSE [building_summary |-> building_summary,
              urban_context |->
                 [nighttime_lights_mean |-> 500000, population_density_mean |-> 50000000,
                  land_surface_temp_mean |-> 28000000,
                  urban_heat_island_intensity |-> 3000000],
              individual_buildings |-> individual_buildings,
              visualization_urls |->
                 [buildings_url |-> IF eng.url = "error" THEN None
                                    ELSE Some([thumb |-> "buildings"]),
                  nightlights_url |-> None, population_url |-> None,
                  urban_heat_url |-> None]]

\* The fields a layer adds to the summary: name, statistic, decimals.
SummaryField(field, stat, decimals) == [field |-> field, stat |-> stat, decimals |-> decimals]

summary_fields(layer) ==
    IF layer = "ndvi" THEN
        {SummaryField("ndvi_mean", "mean", 3), SummaryField("ndvi_std", "stdDev", 3),
         SummaryField("ndvi_min", "min", 3), SummaryField("ndvi_max", "max", 3)}
    ELSE IF layer = "ndbi" THEN
        {SummaryField("ndbi_mean", "mean", 3), SummaryField("ndbi_std", "stdDev", 3)}
    ELSE IF layer = "ndwi" THEN
        {SummaryField("ndwi_mean", "mean", 3), SummaryField("ndwi_std", "stdDev", 3)}
    ELSE IF layer = "elevation" THEN
        {SummaryField("elevation_mean", "mean", 1), SummaryField("elevation_std", "stdDev", 1),
         SummaryField("elevation_min", "min", 1), SummaryField("elevation_max", "max", 1)}
    ELSE IF layer = "slope" THEN
        {SummaryField("slope_mean", "mean", 2), SummaryField("slope_std", "stdDev", 2)}
    ELSE IF layer = "water_occurrence" THEN
        {SummaryField("water_occurrence_mean", "mean", 2)}
    ELSE IF layer = "rainfall" THEN
        {SummaryField("rainfall_annual_mean", "mean", 1)}
    ELSE {}

RECURSIVE Flatten(_)
Flatten(seqs) == IF seqs = <<>> THEN <<>> ELSE Head(seqs) \o Flatten(Tail(seqs))

\* The requested layers handled in the order the request names them, once
\* for every mention.
Requested_as_named(layers) == SelectSeq(layers, LAMBDA l : l \in Range(LayerOrder))

\* The requested layers, in the order analyze_location handles them.
Requested(layers) == SelectSeq(LayerOrder, LAMBDA l : l \in Range(layers))

\* The Engine behaviour a building analysis meets under the faults of a
\* request.
buildings_engine(faults) ==
    LET out(op, c) == OutcomeOf(Call(op, "buildings", c), faults)
    IN  BuildingEngine("ok",
            IF out("buildings_count", "") = "error" THEN None
            ELSE Some(EngineBuildingCount),
            out("buildings_area", ""),
            IF out("buildings_sample", "") = "none" THEN "nokeys"
            ELSE out("buildings_sample", ""),
            out("buildings_list", ""),
            {i \in DOMAIN BuildingIds : out("building_info", BuildingIds[i]) = "error"},
            out("outline", ""))

\* The Engine round trips of the building analysis inside analyze_location
\* (max_buildings=20); the look-ups of one building count as one.
buildings_calls(faults) ==
    LET eng == buildings_engine(faults)
        n == Min2(5, Min2(20, EngineBuildingCount))
    IN  <<Call("buildings_count", "buildings", "")>>
        \o (IF eng.count = None THEN <<>>
            ELSE <<Call("buildings_area", "buildings", "")>>
                 \o (IF eng.area = "error" THEN <<>>
                     ELSE <<Call("buildings_sample", "buildings", "")>>)
                 \o <<Call("buildings_list", "buildings", "")>>
                 \o (IF eng.list = "error" THEN <<>>
                     ELSE [i \in 1..n |-> Call("building_info", "buildings", BuildingIds[i])])
                 \o <<Call("outline", "buildings", "")>>)

\* The Engine round trips one layer makes when nothing raises.
calls_of_layer(layer, faults) ==
    IF layer \in StatLayers
    THEN <<Call("stats", layer, ""), Call("thumb", layer, "")>>
    ELSE IF layer = "landcover"
    THEN Flatten([i \in DOMAIN class_names |->
                    IF OutcomeOf(Call("class_area", layer, class_names[i]), faults) = "ok"
                    THEN <<Call("class_area", layer, class_names[i]),
                           Call("roi_area", layer, class_names[i])>>
                    ELSE <<Call("class_area", layer, class_names[i])>>])
         \o <<Call("thumb", layer, "")>>
    ELSE IF layer = "buildings" THEN buildings_calls(faults)
    ELSE <<Call("analysis", layer, "")>>

\* Every round trip analyze_location makes when nothing raises.
planned_calls(layers, faults) ==
    <<Call("roi_area", "roi", ""), Call("roi_perimeter", "roi", "")>>
    \o Flatten([i \in DOMAIN Requested(layers) |->
                   calls_of_layer(Requested(layers)[i], faults)])
    \o <<Call("thumb", "true_color", "")>>

\* The calls whose Engine error nothing catches inside the core: the ROI
\* area and perimeter, and the reduction inside calculate_statistics.
Propagates(call, faults) ==
    /\ OutcomeOf(call, faults) = "error"
    /\ \/ call.layer = "roi"
       \/ call.op = "stats" /\ calculate_statistics(call.layer, "error").raised
       \/ call.op = "thumb" /\ get_visualization_url(call.layer, "error").raised

\* analyze_location: the results dictionary, or the exception that left it,
\* and the Engine round trips made.
analyze_location(lat, lon, buffer_m, layers, faults) ==
    LET plan == planned_calls(layers, faults)
        bad == {i \in DOMAIN plan : Propagates(plan[i], faults)}
        req == Range(Requested(layers))
        fields == UNION {summary_fields(l) : l \in req}
        layer_of(f) == CHOOSE l \in req : f \in summary_fields(l)
        out(op, l, c) == OutcomeOf(Call(op, l, c), faults)
    IN  IF bad # {}
        THEN [raised |-> TRUE,
              cause |-> plan[Min(bad)],
              calls |-> SubSeq(plan, 1, Min(bad))]
        ELSE [raised |-> FALSE,
              calls |-> plan,
              results |->
                [summary |->
                    [name \in {f.field : f \in fields} |->
                        LET f == CHOOSE g \in fields : g.field = name
                        IN safe_round(
                             Some(calculate_statistics(layer_of(f),
                                      out("stats", layer_of(f), "")).value[f.stat]),
                             f.decimals).value],
                 landcover_histogram |->
                    IF "landcover" \in req
                    THEN calculate_landcover_histogram(buffer_m, faults)
                    ELSE <<>>,
                 visuals |->
                    [name \in (req \ {"buildings", "administrative", "vegetation"})
                              \cup {"true_color"} |->
                        get_visualization_url(name, out("thumb", name, "")).value],
                 roi |-> [center_lat |-> lat, center_lon |-> lon,
                          buffer_meters |-> buffer_m,
                          area_hectares |-> RoundHalfEven(EngineRoiArea(buffer_m), 100),
                          perimeter_meters |-> RoundHalfEven(EngineRoiPerimeter(buffer_m), 10)],
                 buildings |->
                    IF "buildings" \notin req THEN None
                    ELSE Some(analyze_buildings_in_area(buildings_engine(faults), 20)),
                 administrative |->
                    IF "administrative" \notin req THEN None
                    ELSE Some(analyze_administrative_boundaries(<<>>,
                             IF out("analysis", "administrative", "") = "error"
                             THEN "count" ELSE "")),
                 vegetation |->
                    IF "vegetation" \notin req THEN None
                    ELSE Some(analyze_viirs_vegetation(
                             [kind |-> out("analysis", "vegetation", ""),
                              mean |-> 500000]))]]

-----------------------------------------------------------------------------
(* Primary service: the endpoints (app/main.py) *)

AllSummaryFields ==
    {"ndvi_mean", "ndvi_std", "ndvi_min", "ndvi_max", "ndbi_mean", "ndbi_std",
     "ndwi_mean", "ndwi_std", "elevation_mean", "elevation_std", "elevation_min",
     "elevation_max", "slope_mean", "slope_std", "water_occurrence_mean",
     "rainfall_annual_mean"}

AllVisuals == {"ndvi", "ndbi", "ndwi", "elevation", "slope", "landcover",
               "water_occurrence", "rainfall", "true_color"}

\* EarthEngineSummary(**d): every field optional, None when not supplied.
EarthEngineSummary(d) ==
    [f \in AllSummaryFields |-> IF f \in DOMAIN d THEN Some(d[f]) ELSE None]

\* LandcoverHistogram(**d)
LandcoverHistogram(d) ==
    [c \in Range(class_names) |-> IF c \in DOMAIN d THEN Some(d[c]) ELSE None]

\* EarthEngineVisuals(**d)
EarthEngineVisuals(d) ==
    [v \in AllVisuals |-> IF v \in DOMAIN d THEN d[v] ELSE None]

\* An HTTPException as raised by a handler.
HTTPException(status_code, detail) ==
    [exc |-> "HTTPException", status_code |-> status_code, detail |-> detail]

\* Any other exception, coming out of an Engine call.
EngineError(call) == [exc |-> "EEException", call |-> call]

\* http_exception_handler: the status of the exception and its detail in the
\* error envelope.
http_exception_handler(exc) ==
    [status |-> exc.status_code,
     body |-> [error |-> exc.detail,
               detail |-> None,
               error_code |-> <<"HTTP", exc.status_code>>]]

\* GET /health: probe is what reading the test image's id from the Engine
\* does, "ok" or "raises".
health_check(probe) ==
    IF probe = "ok"
    THEN [status |-> 200,
          body |-> [status |-> "healthy",
                    earth_engine |-> "connected",
                    test_image_id |-> "COPERNICUS/S2_SR/20230101T061241_20230101T061238_T43PGQ",
                    timestamp |-> "2024-10-02T00:00:00Z"]]
    ELSE http_exception_handler(
             HTTPException(503, <<"Earth Engine connection failed: ",
                                  EngineError("system:id")>>))

\* The detail with latitude and longitude in each other's place.
location_error_detail_swapped(lat, lon, cause) ==
    [text |-> "Failed to analyze location", lat |-> lon, lon |-> lat, cause |-> cause]

\* f"Failed to analyze location ({request.lat}, {request.lon}): {str(e)}"
location_error_detail(lat, lon, cause) ==
    [text |-> "Failed to analyze location", lat |-> lat, lon |-> lon, cause |-> cause]

\* analyze_location_endpoint, given a validated request: the response and
\* the Engine round trips made.
analyze_location_endpoint(req, faults) ==
    LET r == analyze_location(req.lat, req.lon, req.buffer_m, req.layers, faults)
    IN  IF r.raised
        THEN [response |-> http_exception_handler(
                  HTTPException(500, location_error_detail(req.lat, req.lon,
                                                           EngineError(r.cause)))),
              calls |-> r.calls]
        ELSE [response |->
                [status |-> 200,
                 body |-> [coordinates |-> <<[lat |-> req.lat, long |-> req.lon]>>,
                           earth_engine |->
                             [summary |-> EarthEngineSummary(r.results.summary),
                              landcover_histogram |->
                                  LandcoverHistogram(r.results.landcover_histogram),
                              visuals |-> EarthEngineVisuals(r.results.visuals),
                              roi |-> r.results.roi,
                              buildings |-> r.results.buildings]]],
              calls |-> r.calls]

\* The framework's answer to a body the schema rejects.
validation_error_response(errors) ==
    [status |-> 422, body |-> [detail |-> errors]]

polygon_layers == {"buildings", "administrative", "vegetation"}

\* "if not geometry_data": a missing geometry and an empty one alike.
falsy_geometry(geometry_data) == geometry_data.given \in {"absent", "empty"}

\* The geometry type the handler reads, from a Feature or a bare geometry.
geom_type_of(geometry_data) ==
    IF geometry_data.type = "Feature" THEN geometry_data.geometry_type
    ELSE geometry_data.type

\* The Engine round trips of a polygon analysis when nothing raises.  Each
\* of the three analyses catches its own failures; the geometry
\* construction and the area, centroid and perimeter look-ups do not.
polygon_calls(layer) ==
    <<Call("polygon", "roi", ""), Call("analysis", layer, ""),
      Call("roi_area", "roi", ""), Call("centroid", "roi", ""),
      Call("centroid", "roi", "again"), Call("roi_perimeter", "roi", "")>>

\* The body of the handler's try block: what it returns or raises.
polygon_try_block(body, faults) ==
    LET geometry_data == body.geometry
        layer == IF body.layer = None THEN "buildings" ELSE body.layer[1]
        plan == polygon_calls(layer)
        bad == {i \in DOMAIN plan :
                   plan[i].layer = "roi" /\ OutcomeOf(plan[i], faults) = "error"}
    IN  IF falsy_geometry(geometry_data)
        THEN [raised |-> Some(HTTPException(400, [text |-> "No geometry provided"])),
              calls |-> <<>>]
        ELSE IF geom_type_of(geometry_data) # "Polygon"
        THEN [raised |-> Some(HTTPException(400,
                  [text |-> "Unsupported geometry type",
                   geom_type |-> geom_type_of(geometry_data)])),
              calls |-> <<>>]
        ELSE IF OutcomeOf(plan[1], faults) = "error"
        THEN [raised |-> Some(EngineError(plan[1])), calls |-> SubSeq(plan, 1, 1)]
        ELSE IF layer \notin polygon_layers
        THEN [raised |-> Some(HTTPException(400,
                  [text |-> "Analysis type not yet supported for polygons",
                   layer |-> layer,
                   supported |-> <<"buildings", "administrative", "vegetation">>])),
              calls |-> SubSeq(plan, 1, 1)]
        ELSE IF bad # {}
        THEN [raised |-> Some(EngineError(plan[Min(bad)])),
              calls |-> SubSeq(plan, 1, Min(bad))]
        ELSE [raised |-> None,
              calls |-> plan,
              value |-> [status |-> "success", analysis_type |-> <<"polygon", layer>>]]

\* analyze_polygon_endpoint: the try block under "except Exception", which
\* catches the handler's own HTTPExceptions too and turns whatever it
\* caught into a 500.
analyze_polygon_endpoint(body, faults) ==
    LET t == polygon_try_block(body, faults)
    IN  IF t.raised = None
        THEN [response |-> [status |-> 200, body |-> t.value], calls |-> t.calls]
        ELSE [response |-> http_exception_handler(
                  HTTPException(500, [text |-> "Polygon analysis failed",
                                      cause |-> t.raised[1]])),
              calls |-> t.calls]

-----------------------------------------------------------------------------
(* Primary service: the requests tried and the specification *)

\* Latitudes, longitudes and buffers on, next to and between the limits.
LatProbes == {LatMin - 1, LatMin, 13, LatMax, LatMax + 1}
LonProbes == {LonMin - 1, LonMin, 77, LonMax, LonMax + 1}
BufferProbes == {None, Some(BufferMin - 1), Some(BufferMin), Some(BufferMax),
                 Some(BufferMax + 1)}

\* The names generated layers lists are made of.
LayerAlphabet == {"ndvi", "landcover", "buildings", "invalid_layer"}

RECURSIVE SeqsUpTo(_, _)
SeqsUpTo(S, n) ==
    IF n = 0 THEN {<<>>}
    ELSE LET shorter == SeqsUpTo(S, n - 1)
         IN  shorter \cup {Append(q, x) : q \in shorter, x \in S}

LayerLists ==
    SeqsUpTo(LayerAlphabet, MaxLayers)
    \cup {supported_layers}
    \cup {<<supported_layers[i]>> : i \in DOMAIN supported_layers}
    \cup {<<"ndvi", "elevation", "invalid_layer", "slope">>}
    \cup {<<"administrative">>, <<"vegetation">>, <<"ndvi", "vegetation">>,
          <<"administrative", "landcover">>}

LocationBody(lat, lon, buffer_m, layers) ==
    [lat |-> lat, lon |-> lon, buffer_m |-> buffer_m, layers |-> layers]

LocationBodies ==
    {LocationBody(lat, lon, b, Some(<<"slope">>)) :
        lat \in LatProbes, lon \in LonProbes, b \in BufferProbes}
    \cup {LocationBody(13, 77, None, None), LocationBody(LatMin, LonMax, None, None)}
    \cup {LocationBody(13, 77, None, Some(l)) : l \in LayerLists}

GeometryProbes ==
    {[given |-> "absent", type |-> "", geometry_type |-> ""],
     [given |-> "empty", type |-> "", geometry_type |-> ""],
     [given |-> "dict", type |-> "Feature", geometry_type |-> "Polygon"],
     [given |-> "dict", type |-> "Feature", geometry_type |-> "Point"],
     [given |-> "dict", type |-> "Polygon", geometry_type |-> ""],
     [given |-> "dict", type |-> "MultiPolygon", geometry_type |-> ""]}

PolygonLayerProbes == {None, Some("buildings"), Some("administrative"),
                       Some("vegetation"), Some("ndvi")}

PolygonBodies ==
    {[geometry |-> g, layer |-> l] : g \in GeometryProbes, l \in PolygonLayerProbes}

\* Every way one of the given calls can misbehave.
FaultPoints(calls) ==
    UNION {{[call |-> calls[i], kind |-> k] : k \in FaultKinds(calls[i])} :
              i \in DOMAIN calls}

\* The sets of at most n misbehaving calls, a call misbehaving one way.
RECURSIVE FaultSets(_, _)
FaultSets(points, n) ==
    IF n = 0 THEN {{}}
    ELSE LET fewer == FaultSets(points, n - 1)
         IN  fewer \cup UNION {{fs \cup {p} :
                                   p \in {q \in points : \A f \in fs : f.call # q.call}} :
                               fs \in fewer}

LocationFaults(body) ==
    IF LocationRequest(body).ok
    THEN FaultSets(FaultPoints(planned_calls(LocationRequest(body).value.layers, {})),
                   MaxFaults)
    ELSE {{}}

PolygonFaults(body) ==
    FaultSets(FaultPoints(SelectSeq(polygon_calls("buildings"),
                                    LAMBDA c : c.layer = "roi")), MaxFaults)

Requests ==
    {[endpoint |-> "/analyze-location", body |-> r[1], faults |-> r[2]] :
        r \in UNION {{<<b, f>> : f \in LocationFaults(b)} : b \in LocationBodies}}
    \cup
    {[endpoint |-> "/analyze-polygon", body |-> r[1], faults |-> r[2]] :
        r \in UNION {{<<b, f>> : f \in PolygonFaults(b)} : b \in PolygonBodies}}

\* POST /analyze-location: the body is validated into a LocationRequest
\* first; only a valid one reaches the handler.
AnalyzeLocation ==
    /\ response = None
    /\ request.endpoint = "/analyze-location"
    /\ LET parsed == LocationRequest(request.body)
       IN  IF parsed.ok
           THEN LET r == analyze_location_endpoint(parsed.value, request.faults)
                IN  /\ response' = Some(r.response)
                    /\ engineCalls' = r.calls
           ELSE /\ response' = Some(validation_error_response(parsed.errors))
                /\ engineCalls' = <<>>
    /\ UNCHANGED <<request, regionVars, coreVars, serviceVars>>

\* POST /analyze-polygon: the body is a plain dict, nothing is validated
\* before the handler.
AnalyzePolygon ==
    /\ response = None
    /\ request.endpoint = "/analyze-polygon"
    /\ LET r == analyze_polygon_endpoint(request.body, request.faults)
       IN  /\ response' = Some(r.response)
           /\ engineCalls' = r.calls
    /\ UNCHANGED <<request, regionVars, coreVars, serviceVars>>

Init ==
    /\ request \in Requests
    /\ response = None
    /\ engineCalls = <<>>
    /\ regionReq = None
    /\ regionResp = None
    /\ gaulLog = <<>>
    /\ unitCall = None
    /\ unitResult = None
    /\ now = 0
    /\ files = <<>>
    /\ handlers = <<>>

Next == AnalyzeLocation \/ AnalyzePolygon

Spec == Init /\ [][Next]_vars

-----------------------------------------------------------------------------
(* Standalone services: the time-series endpoints (app_open_buildings_temporal,
   app_viirs) *)

\* FastAPI's own rendering of an HTTPException: these services install no
\* handler of their own.
default_exception_response(exc) ==
    [status |-> exc.status_code, body |-> [detail |-> exc.detail]]

\* "except Exception as e: raise HTTPException(500, f'<prefix>: {str(e)}')"
error_500(prefix, cause) ==
    default_exception_response(HTTPException(500, <<prefix, cause>>))

\* One feature of time_series['features']: an image's date and its spatial
\* mean over the region, None when the image has no unmasked pixel there.
ImageFeature(date, mean) == [date |-> date, mean |-> mean]

\* The series in the reverse of the Engine's listing order.
series_points_reversed(features) ==
    LET kept == SelectSeq(features, LAMBDA f : f.mean # None)
    IN  [i \in DOMAIN kept |-> kept[Len(kept) + 1 - i]]

\* The loop over time_series['features']: a feature whose mean is None is
\* passed over, the others are appended in the order they come.
series_points(features) == SelectSeq(features, LAMBDA f : f.mean # None)

RECURSIVE sum(_)
sum(values) == IF values = <<>> THEN 0 ELSE Head(values) + sum(Tail(values))

\* min(values), max(values) and sum(values) / len(values), the quotient kept
\* as numerator and denominator; None for an empty series.
series_statistics(values) ==
    IF values = <<>>
    THEN [min |-> None, max |-> None, mean |-> None]
    ELSE [min |-> Some(Min(Range(values))),
          max |-> Some(Max(Range(values))),
          mean |-> Some([sum |-> sum(values), len |-> Len(values)])]

\* The body both time-series endpoints return.  q.features is what
\* collection.map(get_image_stats).getInfo() lists, in the Engine's order.
time_series_body(q) ==
    LET points == series_points(q.features)
        values == [i \in DOMAIN points |-> points[i].mean[1]]
    IN  [success |-> TRUE,
         region |-> q.region,
         date_range |-> <<q.start_date, q.end_date>>,
         data_points |-> Len(points),
         time_series |-> [dates |-> [i \in DOMAIN points |-> points[i].date],
                          values |-> values],
         statistics |-> series_statistics(values)]

\* What the try block runs into after the band check: q.fails is the Engine
\* raising on getInfo; q.nulls is how a null mean arrives, as a None value
\* ("null") or as a key left out of the properties ("absent"), which
\* props[...] answers with KeyError.
time_series_failure(q) ==
    IF q.fails THEN Some(EngineError("time_series"))
    ELSE IF q.nulls = "absent" /\ \E i \in DOMAIN q.features : q.features[i].mean = None
    THEN Some([exc |-> "KeyError", key |-> <<q.band, "_mean">>])
    ELSE None

valid_bands == {"building_presence", "building_height", "building_fractional_count"}

\* GET /temporal-time-series: the 400 of an invalid band is raised inside the
\* try block.
get_temporal_time_series(q) ==
    IF q.band \notin valid_bands
    THEN error_500("Error generating time series",
                   HTTPException(400, [text |-> "Invalid band", band |-> q.band]))
    ELSE IF time_series_failure(q) # None
    THEN error_500("Error generating time series", time_series_failure(q)[1])
    ELSE [status |-> 200,
          body |-> [building_band |-> q.band,
                    dataset |-> "GOOGLE/Research/open-buildings-temporal/v1"]
                   @@ time_series_body(q)]

\* GET /viirs-time-series: the index is not checked; one the collection does
\* not have makes the Engine raise.
get_time_series(q) ==
    IF q.band \notin {"NDVI", "EVI", "EVI2"}
    THEN error_500("Error generating time series", EngineError("select"))
    ELSE IF time_series_failure(q) # None
    THEN error_500("Error generating time series", time_series_failure(q)[1])
    ELSE [status |-> 200,
          body |-> [vegetation_index |-> q.band] @@ time_series_body(q)]

-----------------------------------------------------------------------------
(* Standalone services: building footprints (app_open_buildings) *)

\* One feature of buildings_list['features'].
BuildingFeature(area, confidence, plus_code) ==
    [area_in_meters |-> area, confidence |-> confidence, full_plus_code |-> plus_code]

\* The entry kept for a building in large_buildings or small_buildings.
notable_entry(feature) ==
    [area |-> feature.area_in_meters[1],
     confidence |-> feature.confidence,
     plus_code |-> feature.full_plus_code]

\* sorted(entries, key=lambda x: x['area'], reverse=reverse): stable, entries
\* of equal area keep the order they had.
RECURSIVE sorted_by_area(_, _)
sorted_by_area(entries, reverse) ==
    IF entries = <<>> THEN <<>>
    ELSE LET last == entries[Len(entries)]
             rest == sorted_by_area(SubSeq(entries, 1, Len(entries) - 1), reverse)
             k == Cardinality({i \in DOMAIN rest :
                                 IF reverse THEN rest[i].area >= last.area
                                            ELSE rest[i].area <= last.area})
         IN  SubSeq(rest, 1, k) \o <<last>> \o SubSeq(rest, k + 1, Len(rest))

\* The five largest and the five smallest of all the sampled buildings.
notable_buildings_of_all(features) ==
    LET measured == SelectSeq(features, LAMBDA f : f.area_in_meters # None)
        entries == [i \in DOMAIN measured |-> notable_entry(measured[i])]
    IN  [largest_buildings |-> SubSeq(sorted_by_area(entries, TRUE), 1, Min2(5, Len(entries))),
         smallest_buildings |-> SubSeq(sorted_by_area(entries, FALSE), 1, Min2(5, Len(entries)))]

\* large_buildings collects the buildings above 1000 m2 and small_buildings
\* those below 100 m2; the answer lists the first five of each, by area.
notable_buildings(features) ==
    LET large == SelectSeq(features, LAMBDA f :
                    f.area_in_meters # None /\ f.area_in_meters[1] > 1000)
        small == SelectSeq(features, LAMBDA f :
                    f.area_in_meters # None /\ f.area_in_meters[1] <= 1000
                    /\ f.area_in_meters[1] < 100)
        large_buildings == [i \in DOMAIN large |-> notable_entry(large[i])]
        small_buildings == [i \in DOMAIN small |-> notable_entry(small[i])]
    IN  [largest_buildings |->
            SubSeq(sorted_by_area(large_buildings, TRUE), 1, Min2(5, Len(large))),
         smallest_buildings |->
            SubSeq(sorted_by_area(small_buildings, FALSE), 1, Min2(5, Len(small)))]

\* area_stats; the quotient of avg_area_sqm is kept as sum and count, the
\* hectares as the square metres they are computed from.
area_statistics(areas) ==
    [total_buildings_analyzed |-> Len(areas),
     total_area_sqm |-> sum(areas),
     min_area_sqm |-> IF areas = <<>> THEN None ELSE Some(Min(Range(areas))),
     max_area_sqm |-> IF areas = <<>> THEN None ELSE Some(Max(Range(areas))),
     avg_area_sqm |-> IF areas = <<>> THEN None
                      ELSE Some([sum |-> sum(areas), len |-> Len(areas)]),
     median_area_sqm |->
        IF areas = <<>> THEN None
        ELSE Some(sorted_by_area([i \in DOMAIN areas |-> [area |-> areas[i]]],
                                 FALSE)[(Len(areas) \div 2) + 1].area)]

size_categories(areas) ==
    LET count(lo, hi) == Cardinality({i \in DOMAIN areas : lo <= areas[i] /\ areas[i] < hi})
    IN  [very_small |-> Cardinality({i \in DOMAIN areas : areas[i] < 50}),
         small |-> count(50, 100),
         medium |-> count(100, 500),
         large |-> count(500, 1000),
         very_large |-> Cardinality({i \in DOMAIN areas : areas[i] >= 1000})]

\* GET /buildings-area-analysis.  q.features is what
\* filtered_buildings.limit(sample_size).getInfo() lists.
analyze_building_areas(q) ==
    IF q.fails
    THEN error_500("Error analyzing building areas", EngineError("buildings_list"))
    ELSE IF q.features = <<>>
    THEN [status |-> 200,
          body |-> [success |-> FALSE, message |-> "No buildings found matching criteria"]]
    ELSE LET measured == SelectSeq(q.features, LAMBDA f : f.area_in_meters # None)
             areas == [i \in DOMAIN measured |-> measured[i].area_in_meters[1]]
             rated == SelectSeq(q.features, LAMBDA f : f.confidence # None)
             confidences == [i \in DOMAIN rated |-> rated[i].confidence[1]]
         IN  [status |-> 200,
              body |-> [success |-> TRUE,
                        region |-> q.region,
                        area_statistics |-> area_statistics(areas),
                        size_distribution |-> size_categories(areas),
                        confidence_stats |->
                            [min |-> IF confidences = <<>> THEN None
                                     ELSE Some(Min(Range(confidences))),
                             max |-> IF confidences = <<>> THEN None
                                     ELSE Some(Max(Range(confidences))),
                             avg |-> IF confidences = <<>> THEN None
                                     ELSE Some([sum |-> sum(confidences),
                                                len |-> Len(confidences)])],
                        notable_buildings |-> notable_buildings(q.features)]]

\* The count of the region's buildings: exact when size().getInfo() answers
\* (q.size), otherwise the text ">n (estimated)" from a sample of at most
\* 10000 (q.sample_size).  None: that second request raised too.
total_count(q) ==
    IF q.size # None THEN Some([exact_count |-> TRUE, count |-> q.size[1]])
    ELSE IF q.sample_size # None
    THEN Some([exact_count |-> FALSE, estimated |-> q.sample_size[1]])
    ELSE None

\* "buildings_per_sq_km": round(buildings_per_sqkm, 2) if buildings_per_sqkm
\* else "Cannot calculate".  buildings_per_sqkm is total_count / area for an
\* exact count and a positive area and None otherwise, and the test is one
\* of truth: a quotient of 0.0 fails it as None does.  Hundredths.
buildings_per_sq_km(count, region_area_sqkm) ==
    IF count.exact_count /\ region_area_sqkm > 0 /\ count.count # 0
    THEN [number |-> TRUE, hundredths |-> RoundHalfEven(100 * count.count, region_area_sqkm)]
    ELSE [number |-> FALSE, text |-> "Cannot calculate"]

\* The sum of the sampled buildings' areas, one without an area (or of area
\* 0) adding nothing.
RECURSIVE total_building_area(_)
total_building_area(features) ==
    IF features = <<>> THEN 0
    ELSE (IF Head(features).area_in_meters = None THEN 0
          ELSE Head(features).area_in_meters[1])
         + total_building_area(Tail(features))

\* GET /buildings-count-statistics.  q.area is bounds.area() in km2 and
\* q.features the sample of at most 5000 buildings, None when the request
\* for it raises.
get_building_count_statistics(q) ==
    IF total_count(q) = None
    THEN error_500("Error calculating statistics", EngineError("sample_count"))
    ELSE IF q.area = None
    THEN error_500("Error calculating statistics", EngineError("region_area_sqkm"))
    ELSE IF q.features = None
    THEN error_500("Error calculating statistics", EngineError("buildings_list"))
    ELSE IF q.features[1] # <<>> /\ q.area[1] = 0
    THEN error_500("Error calculating statistics", [exc |-> "ZeroDivisionError"])
    ELSE LET count == total_count(q)[1]
             features == q.features[1]
         IN  [status |-> 200,
              body |->
                [success |-> TRUE,
                 region |-> q.region,
                 region_info |->
                    [area_sq_km |-> 100 * q.area[1],
                     area_sq_miles |-> RoundHalfEven(q.area[1] * 386102, 10000)],
                 building_statistics |->
                    [total_buildings |-> count,
                     count_is_exact |-> count.exact_count,
                     buildings_per_sq_km |-> buildings_per_sq_km(count, q.area[1]),
                     sample_analyzed |-> Len(features)],
                 coverage_analysis |->
                    [building_area_coverage |->
                        IF features = <<>> THEN None
                        ELSE Some(RoundHalfEven(total_building_area(features),
                                                10 * q.area[1])),
                     sample_total_building_area_sqm |-> total_building_area(features)]]]

-----------------------------------------------------------------------------
(* Standalone services: hydrology (app_merit_hydro) *)

\* Python values a statistic can be: the text "N/A", None, or a number.
py_text(text) == [kind |-> "str", text |-> text]

py_none == [kind |-> "none"]

py_number(num) == [kind |-> "num", num |-> num]

\* The truth value Python gives such a value: a non-empty text and a number
\* other than 0 are true, None and 0 are false.
py_truth(value) ==
    \/ value.kind = "str" /\ value.text # ""
    \/ value.kind = "num" /\ value.num # 0

\* stats.get(key, 'N/A') on what reduceRegion(...).getInfo() returned: the
\* default for a key the dictionary lacks, None for a key whose value is
\* null, the number otherwise.
stats_get(stats, key) ==
    IF key \notin DOMAIN stats THEN py_text("N/A")
    ELSE IF stats[key] = None THEN py_none
    ELSE py_number(stats[key][1])

\* comprehensive_stats[band] of a continuous band.
band_stats(stats) ==
    [min |-> stats_get(stats, "min"),
     max |-> stats_get(stats, "max"),
     mean |-> stats_get(stats, "mean")]

\* "terrain_relief_m": (max or 0) - (min or 0) if max and min else 'N/A'.
\* The subtraction is Python's: of two numbers, a number; with a text among
\* them, a TypeError.
terrain_relief_m(elv) ==
    IF py_truth(elv.max) /\ py_truth(elv.min)
    THEN IF elv.max.kind = "num" /\ elv.min.kind = "num"
         THEN Returned(py_number(elv.max.num - elv.min.num))
         ELSE Raised([exc |-> "TypeError"])
    ELSE Returned(py_text("N/A"))

\* round((water_pixels / total_pixels) * 100, 2) if total_pixels > 0 else 0,
\* in hundredths of a percent.
water_percentage(water_pixels, total_pixels) ==
    IF total_pixels > 0 THEN round_percentage(water_pixels, total_pixels) ELSE 0

hydrological_complexity(percentage) ==
    IF percentage > 500 THEN "High" ELSE IF percentage > 100 THEN "Medium" ELSE "Low"

\* GET /merit-comprehensive-analysis.  q.stats gives, per continuous band,
\* the dictionary its reduction returns; q.fails names the Engine request that
\* raises, if one does; q.map_result is what _generate_comprehensive_map
\* returns, which keeps its own failures to itself.
get_comprehensive_analysis(q) ==
    IF q.fails # ""
    THEN error_500("Error in comprehensive analysis", EngineError(q.fails))
    ELSE LET comprehensive_stats == [band \in DOMAIN q.stats |-> band_stats(q.stats[band])]
             percentage == water_percentage(q.water_pixels, q.total_pixels)
             relief == terrain_relief_m(comprehensive_stats["elv"])
         IN  IF relief.raised
             THEN error_500("Error in comprehensive analysis", relief.exc)
             ELSE [status |-> 200,
                   body |->
                     [success |-> TRUE,
                      region |-> q.region,
                      comprehensive_analysis |->
                         [elevation |-> comprehensive_stats["elv"],
                          river_width |-> comprehensive_stats["wth"],
                          upstream_drainage_area |-> comprehensive_stats["upa"],
                          height_above_drainage |-> comprehensive_stats["hnd"],
                          water_coverage |->
                             [water_pixels |-> q.water_pixels,
                              total_pixels |-> q.total_pixels,
                              water_percentage |-> percentage]],
                      analysis_summary |->
                         [terrain_relief_m |-> relief.value,
                          hydrological_complexity |-> hydrological_complexity(percentage),
                          dataset_coverage |-> "Complete"],
                      map_info |-> IF q.include_map THEN Some(q.map_result) ELSE None]]

-----------------------------------------------------------------------------
(* Standalone services: forest change (app_hansen_forest) *)

\* yearly_loss of one year: the pixels the Engine counts (0 when its answer
\* lacks the key) and round(pixels * 10000 / 1000000, 3), in thousandths.
yearly_loss(pixels) ==
    LET loss_pixels == IF pixels = None THEN 0 ELSE pixels[1]
    IN  [pixels |-> loss_pixels, area_km2 |-> 10 * loss_pixels]

\* GET /hansen-loss-analysis.  q.pixels gives the Engine's count per year;
\* q.fails is the year whose reduction raises, 0 for none.  The 400 of an
\* inverted period is raised inside the try block.
get_loss_by_year(q) ==
    IF q.start_year > q.end_year
    THEN error_500("Error analyzing yearly loss",
                   HTTPException(400, "Start year must be <= end year"))
    ELSE IF q.fails \in q.start_year..q.end_year
    THEN error_500("Error analyzing yearly loss", EngineError("year_loss_pixels"))
    ELSE LET years == q.start_year..q.end_year
             loss == [year \in years |-> yearly_loss(q.pixels[year])]
             RECURSIVE total(_)
             total(ys) == IF ys = {} THEN 0
                          ELSE LET y == CHOOSE y \in ys : TRUE
                               IN  loss[y].pixels + total(ys \ {y})
         IN  [status |-> 200,
              body |-> [success |-> TRUE,
                        region |-> q.region,
                        analysis_period |-> <<q.start_year, q.end_year>>,
                        yearly_forest_loss |-> loss,
                        summary |-> [total_loss_area_km2 |-> total(years)],
                        dataset |-> "UMD Hansen Global Forest Change v1.12"]]

landsat_bands == {"b30", "b40", "b50", "b70"}

\* GET /hansen-landsat-composites.  q.bands is the bands parameter split at
\* its commas and stripped; q.stats is the dictionary the reduction of a band
\* returns.  The 400 of an invalid band is raised inside the try block.
get_landsat_composites(q) ==
    IF \E i \in DOMAIN q.bands : q.bands[i] \notin landsat_bands
    THEN error_500("Error analyzing Landsat composites",
                   HTTPException(400, [text |-> "Invalid band",
                                       band |-> q.bands[
                                           CHOOSE i \in DOMAIN q.bands :
                                               /\ q.bands[i] \notin landsat_bands
                                               /\ \A j \in 1..(i - 1) :
                                                      q.bands[j] \in landsat_bands]]))
    ELSE IF q.fails
    THEN error_500("Error analyzing Landsat composites", EngineError("stats"))
    ELSE [status |-> 200,
          body |-> [success |-> TRUE,
                    region |-> q.region,
                    composite_type |-> q.composite_type,
                    composite_year |-> IF q.composite_type = "first" THEN "2000" ELSE "2024",
                    landsat_bands |->
                        [band \in Range(q.bands) |->
                            band_stats(q.stats) @@ [description |-> band]],
                    dataset |-> "UMD Hansen Global Forest Change v1.12",
                    map_info |-> IF q.include_map THEN Some(q.map_result) ELSE None]]

-----------------------------------------------------------------------------
(* Single operations of the analysis core and of the configuration, each
   run on its own: the call is drawn in InitCore and one action applies it *)


\* Most buildings the Engine finds in an ROI.
MaxBuildings == 3

BuildingEngines ==
    {BuildingEngine("ok", count, area, sample, list, failing, url) :
        count \in {None} \cup {Some(n) : n \in 0..MaxBuildings},
        area \in {"ok", "error"}, sample \in {"ok", "error", "nokeys"},
        list \in {"ok", "error"}, failing \in SUBSET (1..Min2(MaxBuildings, 5)),
        url \in {"ok", "error"}}
    \cup
    {BuildingEngine(load, count, "ok", "ok", "ok", {}, "ok") :
        load \in {"fallback", "raises"},
        count \in {None} \cup {Some(n) : n \in 0..MaxBuildings}}

BuildingCalls ==
    {UnitCall("analyze_buildings_in_area", [eng |-> e, max_buildings |-> m]) :
        e \in BuildingEngines, m \in {2, 20, 50}}

\* analyze_buildings_in_area run on its own.  Its outermost try/except
\* leaves no way out but a returned dictionary.
AnalyzeBuildings ==
    /\ unitResult = None
    /\ unitCall.fn = "analyze_buildings_in_area"
    /\ unitResult' = Some(Returned(
           analyze_buildings_in_area(unitCall.args.eng, unitCall.args.max_buildings)))
    /\ UNCHANGED <<unitCall, regionVars, primaryVars, serviceVars>>

RoundValues ==
    {None, Some(0), Some(1234567), Some(-1234567), Some(2500000), Some(3500000),
     Some(125000), Some(920250000), <<"numstr", 3141590>>, <<"str", "abc">>,
     <<"str", "">>, <<"bool", TRUE>>, <<"bool", FALSE>>, <<"list", 0>>,
     <<"special", "nan">>, <<"special", "inf">>, <<"int", "huge">>}

RoundCalls ==
    {UnitCall("safe_round", [value |-> v, decimals |-> d]) :
        v \in RoundValues, d \in 0..3}

\* safe_round run on its own.
SafeRound ==
    /\ unitResult = None
    /\ unitCall.fn = "safe_round"
    /\ unitResult' = Some(safe_round(unitCall.args.value, unitCall.args.decimals))
    /\ UNCHANGED <<unitCall, regionVars, primaryVars, serviceVars>>

HistogramCalls ==
    {UnitCall("calculate_landcover_histogram", [buffer_m |-> b, faults |-> f]) :
        b \in {BufferMin, DefaultBuffer, BufferMax},
        f \in FaultSets(FaultPoints(calls_of_layer("landcover", {})), MaxFaults)}

\* calculate_landcover_histogram run on its own: every Engine call of its
\* loop sits in a bare try/except.
CalculateHistogram ==
    /\ unitResult = None
    /\ unitCall.fn = "calculate_landcover_histogram"
    /\ unitResult' = Some(Returned(
           calculate_landcover_histogram(unitCall.args.buffer_m, unitCall.args.faults)))
    /\ UNCHANGED <<unitCall, regionVars, primaryVars, serviceVars>>

\* The mean NDVI values tried reach from -NdviSpan to NdviSpan hundredths.
NdviSpan == 100

NdviOutcomes ==
    {[kind |-> "ok", mean |-> j * 10000] : j \in (0 - NdviSpan)..NdviSpan}
    \cup {[kind |-> "ok", mean |-> m] : m \in {199999, 200001, 399999, 400001,
                                                599999, 600001}}
    \cup {[kind |-> k, mean |-> 0] : k \in {"error", "none", "missing"}}

VegetationCalls ==
    {UnitCall("analyze_viirs_vegetation", [ndvi |-> o]) : o \in NdviOutcomes}

\* analyze_viirs_vegetation run on its own.
AnalyzeVegetation ==
    /\ unitResult = None
    /\ unitCall.fn = "analyze_viirs_vegetation"
    /\ unitResult' = Some(Returned(analyze_viirs_vegetation(unitCall.args.ndvi)))
    /\ UNCHANGED <<unitCall, regionVars, primaryVars, serviceVars>>

\* Longest list of intersecting administrative features.
MaxFeatures == 2

GaulFeatures ==
    {GaulFeature(Some("India"), Some("Karnataka"), Some("Bangalore Urban"), 40),
     GaulFeature(Some("India"), Some("Karnataka"), Some("Bangalore Rural"), 120),
     GaulFeature(Some("India"), Some("Tamil Nadu"), Some("Krishnagiri"), 15),
     GaulFeature(Some("India"), None, None, 300)}

AdminCalls ==
    {UnitCall("analyze_administrative_boundaries", [features |-> fs, fails |-> e]) :
        fs \in SeqsUpTo(GaulFeatures, MaxFeatures),
        e \in {"", "count", "list", "area"}}

\* analyze_administrative_boundaries run on its own; its try/except returns
\* an error dictionary for whatever is raised inside.
AnalyzeAdministrative ==
    /\ unitResult = None
    /\ unitCall.fn = "analyze_administrative_boundaries"
    /\ unitResult' = Some(Returned(analyze_administrative_boundaries(
                                       unitCall.args.features, unitCall.args.fails)))
    /\ UNCHANGED <<unitCall, regionVars, primaryVars, serviceVars>>

Configs ==
    {Config(j, p, e, f) :
        j \in {"unset", "empty", "malformed", "not_a_key", "key"},
        p \in {"gee-sa.json", "/run/secrets/gee.json"},
        e \in BOOLEAN,
        f \in {"key", "not_a_key"}}

EngineSessions ==
    {EngineSession(i, q) : i \in {"ok", "raises", "not_registered"},
                           q \in {"ok", "raises"}}

CredentialCalls == {UnitCall("get_gee_credentials", [config |-> c]) : c \in Configs}

InitializeCalls ==
    {UnitCall("initialize_earth_engine", [config |-> c, session |-> e]) :
        c \in Configs, e \in EngineSessions}

LifespanCalls ==
    {UnitCall("lifespan", [config |-> c, session |-> e]) :
        c \in Configs, e \in EngineSessions}

GetCredentials ==
    /\ unitResult = None
    /\ unitCall.fn = "get_gee_credentials"
    /\ unitResult' = Some(get_gee_credentials(unitCall.args.config))
    /\ UNCHANGED <<unitCall, regionVars, primaryVars, serviceVars>>

InitializeEarthEngine ==
    /\ unitResult = None
    /\ unitCall.fn = "initialize_earth_engine"
    /\ unitResult' = Some(initialize_earth_engine(unitCall.args.config,
                                                  unitCall.args.session))
    /\ UNCHANGED <<unitCall, regionVars, primaryVars, serviceVars>>

\* The primary service's start-up, from process start to the yield.
Lifespan ==
    /\ unitResult = None
    /\ unitCall.fn = "lifespan"
    /\ unitResult' = Some(lifespan(unitCall.args.config, unitCall.args.session))
    /\ UNCHANGED <<unitCall, regionVars, primaryVars, serviceVars>>

\* Most images in a filtered collection.
MaxImages == 3

\* Images as the Engine lists them: means in thousandths, dates as day
\* numbers, with two images of one date and one image without data.
ImageProbes ==
    {ImageFeature(1, Some(250)), ImageFeature(2, Some(100)),
     ImageFeature(2, Some(700)), ImageFeature(3, None)}

TimeSeriesCalls ==
    {UnitCall(fn, [region |-> s_bangalore, start_date |-> 0, end_date |-> 4,
                   band |-> b, features |-> fs, nulls |-> n, fails |-> e]) :
        fn \in {"get_temporal_time_series", "get_time_series"},
        b \in {"building_height", "NDVI"},
        fs \in SeqsUpTo(ImageProbes, MaxImages),
        n \in {"null", "absent"},
        e \in BOOLEAN}

\* A time-series endpoint of the temporal-buildings or of the VIIRS service.
TimeSeries ==
    /\ unitResult = None
    /\ unitCall.fn \in {"get_temporal_time_series", "get_time_series"}
    /\ unitResult' = Some(Returned(IF unitCall.fn = "get_temporal_time_series"
                                   THEN get_temporal_time_series(unitCall.args)
                                   ELSE get_time_series(unitCall.args)))
    /\ UNCHANGED <<unitCall, regionVars, primaryVars, serviceVars>>

\* Most buildings drawn freely into a sample, after a fixed head.
MaxSample == 2

\* Sampled buildings: below 100 m2, between the two thresholds, on the upper
\* threshold, above it, and one without an area.
BuildingProbes ==
    {BuildingFeature(Some(40), Some(80), 1), BuildingFeature(Some(500), Some(70), 2),
     BuildingFeature(Some(1000), None, 3), BuildingFeature(Some(1500), Some(90), 4),
     BuildingFeature(None, Some(75), 5)}

\* Heads of a sample: none, six buildings above 1000 m2, six below 100 m2.
SampleHeads ==
    {<<>>,
     [i \in 1..6 |-> BuildingFeature(Some(1000 + 100 * i), Some(80), 10 + i)],
     [i \in 1..6 |-> BuildingFeature(Some(100 - 10 * i), Some(80), 20 + i)]}

AreaAnalysisCalls ==
    {UnitCall("analyze_building_areas",
              [region |-> s_bangalore, features |-> head \o tail, fails |-> e]) :
        head \in SampleHeads, tail \in SeqsUpTo(BuildingProbes, MaxSample), e \in BOOLEAN}

\* GET /buildings-area-analysis of the building-footprint service.
AnalyzeBuildingAreas ==
    /\ unitResult = None
    /\ unitCall.fn = "analyze_building_areas"
    /\ unitResult' = Some(Returned(analyze_building_areas(unitCall.args)))
    /\ UNCHANGED <<unitCall, regionVars, primaryVars, serviceVars>>

\* A region's building count, its area in km2 and a sample consistent with the
\* count.
CountStatisticsCalls ==
    {c \in {UnitCall("get_building_count_statistics",
                     [region |-> s_bangalore, size |-> n, sample_size |-> m,
                      area |-> a, features |-> fs]) :
                n \in {None, Some(0), Some(3), Some(1234)},
                m \in {None, Some(10000)},
                a \in {None, Some(0), Some(7), Some(300)},
                fs \in {None} \cup {Some(s) : s \in SeqsUpTo(BuildingProbes, MaxSample)}} :
        (c.args.size # None /\ c.args.features # None)
            => Len(c.args.features[1]) <= c.args.size[1]}

\* GET /buildings-count-statistics of the building-footprint service.
GetBuildingCountStatistics ==
    /\ unitResult = None
    /\ unitCall.fn = "get_building_count_statistics"
    /\ unitResult' = Some(Returned(get_building_count_statistics(unitCall.args)))
    /\ UNCHANGED <<unitCall, regionVars, primaryVars, serviceVars>>

\* What the reduction of the elevation band can hold for a bound: nothing
\* under that key, a null, or a number of metres.
ElevationBounds ==
    {[min |-> lo, max |-> hi, mean |-> Some(5)] :
        lo \in {None, Some(-3), Some(0), Some(12)},
        hi \in {None, Some(0), Some(12), Some(920)}}
    \cup {[mean |-> Some(5)], [max |-> Some(920), mean |-> Some(5)]}

ComprehensiveCalls ==
    {UnitCall("get_comprehensive_analysis",
              [region |-> s_bangalore, include_map |-> m, map_result |-> "map",
               stats |-> [band \in {"elv", "wth", "upa", "upg", "hnd"} |->
                             IF band = "elv" THEN elv
                             ELSE [min |-> Some(1), max |-> Some(40), mean |-> None]],
               water_pixels |-> w[1], total_pixels |-> w[2], fails |-> f]) :
        m \in BOOLEAN,
        elv \in {e \in ElevationBounds :
                    ("min" \in DOMAIN e /\ "max" \in DOMAIN e /\ e.min # None /\ e.max # None)
                        => e.min[1] <= e.max[1]},
        w \in {<<0, 0>>, <<0, 50>>, <<3, 100>>, <<7, 100>>},
        f \in {"", "elv", "water_pixels"}}

\* GET /merit-comprehensive-analysis of the hydrology service.
GetComprehensiveAnalysis ==
    /\ unitResult = None
    /\ unitCall.fn = "get_comprehensive_analysis"
    /\ unitResult' = Some(Returned(get_comprehensive_analysis(unitCall.args)))
    /\ UNCHANGED <<unitCall, regionVars, primaryVars, serviceVars>>

\* Periods within the years the query parameters admit, inverted ones among
\* them.
LossCalls ==
    {UnitCall("get_loss_by_year",
              [region |-> s_bangalore, start_year |-> s, end_year |-> e,
               pixels |-> [year \in 2001..2003 |-> IF year = 2002 THEN p ELSE Some(40)],
               fails |-> f]) :
        s \in 2001..2003, e \in 2001..2003, p \in {None, Some(0), Some(125)},
        f \in {0, 2001, 2003}}

LandsatCalls ==
    {UnitCall("get_landsat_composites",
              [region |-> s_bangalore, composite_type |-> t, bands |-> bs,
               stats |-> st, include_map |-> m, map_result |-> "map", fails |-> f]) :
        t \in {"first", "last"},
        bs \in {<<"b30", "b40", "b50", "b70">>, <<"b40">>, <<"b30", "b99">>,
                <<"red">>, <<"">>},
        st \in {[min |-> Some(3), max |-> Some(90), mean |-> Some(41)],
                [min |-> None, max |-> None, mean |-> None]},
        m \in BOOLEAN, f \in BOOLEAN}

\* GET /hansen-loss-analysis of the forest-change service.
GetLossByYear ==
    /\ unitResult = None
    /\ unitCall.fn = "get_loss_by_year"
    /\ unitResult' = Some(Returned(get_loss_by_year(unitCall.args)))
    /\ UNCHANGED <<unitCall, regionVars, primaryVars, serviceVars>>

\* GET /hansen-landsat-composites of the forest-change service.
GetLandsatComposites ==
    /\ unitResult = None
    /\ unitCall.fn = "get_landsat_composites"
    /\ unitResult' = Some(Returned(get_landsat_composites(unitCall.args)))
    /\ UNCHANGED <<unitCall, regionVars, primaryVars, serviceVars>>

HealthCalls == {UnitCall("health_check", [probe |-> q]) : q \in {"ok", "raises"}}

\* GET /health of the primary service.
HealthCheck ==
    /\ unitResult = None
    /\ unitCall.fn = "health_check"
    /\ unitResult' = Some(Returned(health_check(unitCall.args.probe)))
    /\ UNCHANGED <<unitCall, regionVars, primaryVars, serviceVars>>

UnitCalls ==
    BuildingCalls \cup RoundCalls \cup HistogramCalls \cup VegetationCalls
    \cup AdminCalls \cup CredentialCalls \cup InitializeCalls \cup LifespanCalls
    \cup HealthCalls \cup TimeSeriesCalls \cup AreaAnalysisCalls
    \cup CountStatisticsCalls \cup ComprehensiveCalls \cup LossCalls \cup LandsatCalls

InitCore ==
    /\ unitCall \in UnitCalls
    /\ unitResult = None
    /\ request = None
    /\ response = None
    /\ engineCalls = <<>>
    /\ regionReq = None
    /\ regionResp = None
    /\ gaulLog = <<>>
    /\ now = 0
    /\ files = <<>>
    /\ handlers = <<>>

NextCore ==
    \/ AnalyzeBuildings \/ SafeRound \/ CalculateHistogram \/ AnalyzeVegetation
    \/ AnalyzeAdministrative
    \/ GetCredentials \/ InitializeEarthEngine \/ Lifespan
    \/ HealthCheck
    \/ TimeSeries
    \/ AnalyzeBuildingAreas
    \/ GetBuildingCountStatistics
    \/ GetComprehensiveAnalysis
    \/ GetLossByYear
    \/ GetLandsatComposites

SpecCore == InitCore /\ [][NextCore]_vars

-----------------------------------------------------------------------------
(* Standalone services: the administrative-boundaries service (app_gaul),
   the vegetation endpoint of the VIIRS service (app_viirs) and, next to
   them, POST /analyze-location, with several requests in flight *)

s_ADM2 == <<"A","D","M","2">>
s_B == <<"B">>
s_b == <<"b">>

\* The truth value Python gives an optional text.
truthy(text) == text # None /\ text[1] # <<>>

\* str.replace(' ', '_')
replace_spaces(s) == [i \in DOMAIN s |-> IF s[i] = " " THEN "_" ELSE s[i]]

\* FeatureCollection.limit(n); which features stay when there are more than
\* n is the Engine's choice.
limit(features, n) ==
    IF Cardinality(features) <= n THEN features
    ELSE CHOOSE kept \in SUBSET features : Cardinality(kept) = n

\* india_boundaries, narrowed by the state filter when one is given.
filtered_boundaries(state_filter) ==
    IF truthy(state_filter) THEN state_boundaries(state_filter[1])
    ELSE india_boundaries

\* The distinct ADM1 names, which sorted() puts in one order.
available_states == {f.ADM1_NAME : f \in india_boundaries}

\* ---- _generate_gaul_map ----

\* The name the map is saved under; timestamp is datetime.now() to the
\* second.
gaul_filename(admin_level, focus_area, timestamp) ==
    <<"gaul", lower(admin_level),
      IF truthy(focus_area) THEN Some(replace_spaces(lower(focus_area[1]))) ELSE None,
      timestamp, ".html">>

\* What m.to_html writes: the centre, and the styled boundaries as a layer.
gaul_map(boundaries_fc, admin_level, focus_area) ==
    [center |-> IF truthy(focus_area) /\ boundaries_fc # {}
                THEN Some(bounds_of(boundaries_fc)) ELSE None,
     zoom |-> IF truthy(focus_area) THEN 7 ELSE 5,
     layer_name |-> <<"India", admin_level, "FAO GAUL", focus_area>>,
     layer |-> boundaries_fc]

\* The dictionary _generate_gaul_map returns; saved is whether building and
\* saving the map went through, otherwise the except branch answers.
generate_gaul_map_result(admin_level, focus_area, filename, saved) ==
    IF saved
    THEN [map_generated |-> TRUE,
          filename |-> filename,
          admin_level |-> admin_level,
          focus_area |-> IF truthy(focus_area) THEN focus_area[1] ELSE s_India,
          dataset |-> "FAO GAUL"]
    ELSE [map_generated |-> FALSE, error |-> "map"]

\* ---- GET /gaul-boundaries ----

boundary_info(feature, admin_level) ==
    [country |-> s_India, state |-> feature.ADM1_NAME, district |-> feature.ADM2_NAME,
     name |-> IF admin_level = <<"A","D","M","0">> THEN s_India
              ELSE IF admin_level = <<"A","D","M","1">> THEN feature.ADM1_NAME
              ELSE feature.ADM2_NAME]

\* get_gaul_boundaries; map_info is what _generate_gaul_map returned, None
\* while the handler has not called it.  A list the handler sorts by name is
\* given as the set of its entries.
get_gaul_boundaries(q, map_info) ==
    LET fc == filtered_boundaries(q.state_filter)
    IN  IF q.fails # "" THEN error_500("Error fetching boundaries", EngineError(q.fails))
        ELSE IF fc = {}
        THEN [status |-> 200,
              body |-> [success |-> FALSE,
                        message |-> <<"No boundaries found for India", q.state_filter>>,
                        dataset |-> "FAO/GAUL_SIMPLIFIED_500m/2015/level2"]]
        ELSE IF ~q.include_map
        THEN [status |-> 200,
              body |-> [success |-> TRUE,
                        admin_level |-> q.admin_level,
                        country |-> s_India,
                        state_filter |-> q.state_filter,
                        total_available |-> Cardinality(fc),
                        showing |-> Cardinality(limit(fc, q.limit)),
                        boundaries |-> {boundary_info(f, q.admin_level) :
                                           f \in limit(fc, q.limit)},
                        dataset |-> "FAO/GAUL_SIMPLIFIED_500m/2015/level2"]]
        ELSE [status |-> 200,
              body |-> [success |-> TRUE,
                        admin_level |-> q.admin_level,
                        country |-> s_India,
                        total_available |-> Cardinality(fc),
                        showing |-> Min2(q.limit, Cardinality(fc)),
                        map_info |-> map_info,
                        dataset |-> "FAO/GAUL_SIMPLIFIED_500m/2015/level2"]]

\* ---- GET /gaul-districts ----

district_info(feature) ==
    [district_name |-> feature.ADM2_NAME, state_name |-> feature.ADM1_NAME]

get_gaul_districts(q, map_info) ==
    LET limited == limit(filtered_boundaries(q.state_name), q.limit)
        response_data ==
            [success |-> TRUE,
             country |-> s_India,
             state_filter |-> q.state_name,
             total_districts |-> Cardinality(limited),
             districts |-> {district_info(f) : f \in limited},
             dataset |-> "FAO/GAUL_SIMPLIFIED_500m/2015/level2",
             map_info |-> map_info]
    IN  IF q.fails # "" THEN error_500("Error fetching districts", EngineError(q.fails))
        ELSE [status |-> 200, body |-> response_data]

\* ---- GET /gaul-state-districts/{state_name} ----

\* The drill-down answering an unknown state like the district listing does.
get_districts_by_state_lenient(q, map_info) ==
    LET fc == state_boundaries(q.state_name[1])
    IN  IF q.fails = "list"
        THEN error_500("Error fetching state districts", EngineError(q.fails))
        ELSE [status |-> 200,
              body |-> [success |-> TRUE,
                        state_info |-> IF fc = {} THEN None
                                       ELSE Some({f.ADM1_NAME : f \in fc}),
                        total_districts |-> Cardinality(fc),
                        districts |-> {district_info(f) : f \in fc},
                        dataset |-> "FAO/GAUL_SIMPLIFIED_500m/2015/level2",
                        map_info |-> map_info]]

\* get_districts_by_state: fails names the Engine read that raises, the
\* listing of the state's districts ("list") or, after an empty listing, the
\* listing of all states ("states").  state_info comes from the first
\* feature of the listing, whichever the Engine puts first.
get_districts_by_state(q, map_info) ==
    LET fc == state_boundaries(q.state_name[1])
    IN  IF q.fails = "list"
        THEN error_500("Error fetching state districts", EngineError(q.fails))
        ELSE IF fc = {}
        THEN IF q.fails = "states"
             THEN error_500("Error fetching state districts", EngineError(q.fails))
             ELSE default_exception_response(
                      HTTPException(404, [text |-> "State not found. Available states",
                                          state_name |-> q.state_name[1],
                                          available_states |-> available_states]))
        ELSE [status |-> 200,
              body |-> [success |-> TRUE,
                        state_info |-> Some({f.ADM1_NAME : f \in fc}),
                        total_districts |-> Cardinality(fc),
                        districts |-> {district_info(f) : f \in fc},
                        dataset |-> "FAO/GAUL_SIMPLIFIED_500m/2015/level2",
                        map_info |-> map_info]]

\* ---- GET /viirs-vegetation-indices ----

valid_indices == {"NDVI", "EVI", "EVI2"}

\* The median composite, as the expression the Engine evaluates.
composite_image(q) ==
    [collection |-> "NASA/VIIRS/002/VNP13A1",
     start_date |-> q.start_date,
     end_date |-> q.end_date,
     quality_filter |-> q.quality_filter,
     bounds |-> get_region_bounds_with_zoom("viirs", q.region, None, None, None, None,
                                            q.state_name, FALSE, FALSE).bounds]

viirs_filename(region, indices, timestamp) ==
    <<"viirs", region, indices, timestamp, ".html">>

\* What m.to_html writes: the centre and one layer per index.
viirs_map(q) ==
    [center |-> composite_image(q).bounds,
     zoom |-> get_region_bounds_with_zoom("viirs", q.region, None, None, None, None,
                                          q.state_name, FALSE, FALSE).zoom,
     layers |-> [i \in DOMAIN q.indices |->
                    [image |-> composite_image(q), band |-> q.indices[i],
                     name |-> <<q.indices[i], q.region>>]]]

generate_viirs_map_result(q, filename, saved) ==
    IF saved
    THEN [map_generated |-> TRUE, filename |-> filename, indices |-> q.indices,
          region |-> q.region, dataset |-> "NASA VIIRS VNP13A1"]
    ELSE [map_generated |-> FALSE, error |-> "map"]

\* get_vegetation_indices: q.images is the size of the filtered collection
\* as the Engine reports it, q.fails whether that read raises.  The 400 of
\* an invalid index is raised inside the try block.
get_vegetation_indices(q, map_info) ==
    IF \E i \in DOMAIN q.indices : q.indices[i] \notin valid_indices
    THEN error_500("Error analyzing vegetation indices",
                   HTTPException(400, [text |-> "Invalid index",
                                       index |-> q.indices[
                                           CHOOSE i \in DOMAIN q.indices :
                                               /\ q.indices[i] \notin valid_indices
                                               /\ \A j \in 1..(i - 1) :
                                                      q.indices[j] \in valid_indices]]))
    ELSE IF q.fails # ""
    THEN error_500("Error analyzing vegetation indices", EngineError(q.fails))
    ELSE IF q.images = 0
    THEN [status |-> 200,
          body |-> [success |-> FALSE,
                    message |-> <<"No quality VIIRS images found for", q.region>>]]
    ELSE [status |-> 200,
          body |-> [success |-> TRUE,
                    region |-> q.region,
                    date_range |-> <<q.start_date, q.end_date>>,
                    images_used |-> q.images,
                    vegetation_indices |->
                        [i \in DOMAIN q.indices |->
                            [index |-> q.indices[i],
                             reduced |-> composite_image(q)]],
                    quality_filtered |-> q.quality_filter,
                    composite_type |-> "median",
                    map_info |-> map_info]]

\* ---- the handlers, step by step ----

GaulEndpoints == {"/gaul-boundaries", "/gaul-districts", "/gaul-state-districts"}

\* The response of the handler of q, given what its map helper returned.
handle(q, map_info) ==
    IF q.endpoint = "/gaul-boundaries" THEN get_gaul_boundaries(q, map_info)
    ELSE IF q.endpoint = "/gaul-districts" THEN get_gaul_districts(q, map_info)
    ELSE IF q.endpoint = "/gaul-state-districts" THEN get_districts_by_state(q, map_info)
    ELSE IF q.endpoint = "/viirs-vegetation-indices" THEN get_vegetation_indices(q, map_info)
    ELSE analyze_location_endpoint(LocationRequest(q.body).value, q.faults).response

\* The arguments of the call of _generate_gaul_map the handler of q gets
\* to, None when it returns or raises before.
gaul_map_call(q) ==
    IF q.fails # "" \/ ~q.include_map THEN None
    ELSE IF q.endpoint = "/gaul-boundaries"
    THEN IF filtered_boundaries(q.state_filter) = {} THEN None
         ELSE Some([boundaries_fc |-> limit(filtered_boundaries(q.state_filter), q.limit),
                    admin_level |-> q.admin_level,
                    focus_area |-> q.state_filter])
    ELSE IF q.endpoint = "/gaul-districts"
    THEN Some([boundaries_fc |-> limit(filtered_boundaries(q.state_name), q.limit),
               admin_level |-> s_ADM2,
               focus_area |-> q.state_name])
    ELSE IF state_boundaries(q.state_name[1]) = {} THEN None
         ELSE Some([boundaries_fc |-> state_boundaries(q.state_name[1]),
                    admin_level |-> s_ADM2,
                    focus_area |-> q.state_name])

\* Whether the handler of q gets to its map helper.
generates_map(q) ==
    IF q.endpoint \in GaulEndpoints THEN gaul_map_call(q) # None
    ELSE IF q.endpoint = "/viirs-vegetation-indices"
    THEN /\ get_vegetation_indices(q, None).status = 200
         /\ q.images # 0
         /\ q.include_map
    ELSE FALSE

map_filename(q, timestamp) ==
    IF q.endpoint \in GaulEndpoints
    THEN gaul_filename(gaul_map_call(q)[1].admin_level, gaul_map_call(q)[1].focus_area,
                       timestamp)
    ELSE viirs_filename(q.region, q.indices, timestamp)

map_html(q) ==
    IF q.endpoint \in GaulEndpoints
    THEN gaul_map(gaul_map_call(q)[1].boundaries_fc, gaul_map_call(q)[1].admin_level,
                  gaul_map_call(q)[1].focus_area)
    ELSE viirs_map(q)

map_result(q, filename, saved) ==
    IF q.endpoint \in GaulEndpoints
    THEN generate_gaul_map_result(gaul_map_call(q)[1].admin_level,
                                  gaul_map_call(q)[1].focus_area, filename, saved)
    ELSE generate_viirs_map_result(q, filename, saved)

\* open(filename, 'w') and write: the file is created or replaced.
write_file(directory, filename, content) ==
    [name \in DOMAIN directory \cup {filename} |->
        IF name = filename THEN content ELSE directory[name]]

\* Last second of the clock.
MaxClock == 1

\* Two requests in flight.
RequestIds == {1, 2}

GaulRequests ==
    {[endpoint |-> "/gaul-boundaries", admin_level |-> s_ADM2, include_map |-> m,
      limit |-> 50, state_filter |-> st, fails |-> e] :
        m \in BOOLEAN, st \in {None, Some(s_B), Some(s_b), Some(s_Xyz)},
        e \in {"", "size"}}
    \cup
    {[endpoint |-> "/gaul-districts", include_map |-> m, limit |-> 100,
      state_name |-> st, fails |-> ""] :
        m \in BOOLEAN, st \in {None, Some(s_B), Some(s_Xyz)}}
    \cup
    {[endpoint |-> "/gaul-state-districts", include_map |-> m, state_name |-> Some(st),
      fails |-> e] :
        m \in BOOLEAN, st \in {s_B, s_Xyz}, e \in {"", "list", "states"}}

ViirsRequests ==
    {[endpoint |-> "/viirs-vegetation-indices", start_date |-> d[1], end_date |-> d[2],
      region |-> s_bangalore, state_name |-> None, indices |-> ix, include_map |-> m,
      quality_filter |-> TRUE, images |-> n, fails |-> ""] :
        d \in {<<"2023-06-01", "2023-08-31">>, <<"2022-06-01", "2022-08-31">>},
        ix \in {<<"NDVI">>, <<"NDVI", "NDMI">>},
        m \in BOOLEAN, n \in {0, 6}}

LocationRequests ==
    {[endpoint |-> "/analyze-location",
      body |-> LocationBody(13, 77, None, Some(<<"ndvi">>)), faults |-> {}]}

ServiceRequests == GaulRequests \cup ViirsRequests \cup LocationRequests

\* A handler runs up to datetime.now() of its map helper, or, with no map to
\* make, to its response.
HandleRequest(h) ==
    /\ handlers[h].pc = "start"
    /\ LET q == handlers[h].req
       IN  IF generates_map(q)
           THEN handlers' = [handlers EXCEPT ![h].pc = "stamped",
                                             ![h].filename = Some(map_filename(q, now))]
           ELSE handlers' = [handlers EXCEPT ![h].pc = "done",
                                             ![h].response = Some(handle(q, None))]
    /\ UNCHANGED <<now, files, regionVars, primaryVars, coreVars>>

\* m.to_html(filename) and the rest of the handler; a map that cannot be
\* built or saved leaves no file and is reported in map_info.
SaveMap(h) ==
    /\ handlers[h].pc = "stamped"
    /\ \E saved \in BOOLEAN :
        LET q == handlers[h].req
            filename == handlers[h].filename[1]
        IN  /\ files' = IF saved THEN write_file(files, filename, map_html(q)) ELSE files
            /\ handlers' = [handlers EXCEPT
                              ![h].pc = "done",
                              ![h].saved = saved,
                              ![h].response =
                                  Some(handle(q, Some(map_result(q, filename, saved))))]
    /\ UNCHANGED <<now, regionVars, primaryVars, coreVars>>

\* A second passes.
Tick ==
    /\ now < MaxClock
    /\ now' = now + 1
    /\ UNCHANGED <<files, handlers, regionVars, primaryVars, coreVars>>

InitServices ==
    /\ now = 0
    /\ files = <<>>
    /\ handlers \in [RequestIds -> {[req |-> q, pc |-> "start", filename |-> None,
                                     saved |-> FALSE, response |-> None] :
                                       q \in ServiceRequests}]
    /\ regionReq = None
    /\ regionResp = None
    /\ gaulLog = <<>>
    /\ request = None
    /\ response = None
    /\ engineCalls = <<>>
    /\ unitCall = None
    /\ unitResult = None

NextServices ==
    \/ \E h \in RequestIds : HandleRequest(h)
    \/ \E h \in RequestIds : SaveMap(h)
    \/ Tick

SpecServices == InitServices /\ [][NextServices]_vars

-----------------------------------------------------------------------------
(* Properties of region resolution, checked under SpecRegion *)

Resolved == regionResp # None
Args == regionReq
Result == regionResp[1]

\* The caller supplied all four of west, south, east and north.
BBoxGiven ==
    /\ Args.west # None
    /\ Args.south # None
    /\ Args.east # None
    /\ Args.north # None

BBoxRect == Rectangle(<<Args.west[1], Args.south[1], Args.east[1], Args.north[1]>>)

IndiaSpellings == {s_india, s_INDIA, s_India}
CityKeySpellings == {s_mumbai, s_Mumbai, s_Pune}
NamesAKey == Args.region \in IndiaSpellings \cup CityKeySpellings

SourcesIn(log) == [i \in DOMAIN log |-> log[i].source]
ResolutionOrder == <<"predefined", "gaul_district", "gaul_state", "fallback">>

\* C6: with all four bounding-box parameters supplied, the resolved geometry
\* is exactly the rectangle formed from them, whatever region name or state
\* hint comes with them, and neither the predefined table nor the
\* administrative dataset is consulted.
C6_ExplicitBBoxWins ==
    (Resolved /\ BBoxGiven) => (Result.bounds = BBoxRect /\ gaulLog = <<>>)

\* C6 witness: a bounding box with a zero coordinate, given together with a
\* predefined city key and a state hint, has been resolved.
C6_Witness ==
    /\ Resolved
    /\ BBoxGiven
    /\ Args.west = Some(0)
    /\ Args.region = s_mumbai
    /\ Args.state_name = s_Goa
    /\ Result.bounds = BBoxRect

\* C7 as claimed: whenever all four bounding-box components are supplied the
\* zoom hint is 8, whatever region identifier accompanies them.
C7_BBoxZoomIsEight ==
    (Resolved /\ BBoxGiven /\ Result.zoom # None) => Result.zoom = Some(8)

\* C8: the sources are tried in the order explicit bounding box, predefined
\* key, GAUL district, GAUL state, India fallback, and the first that resolves
\* is returned; a name matching both a district and a state resolves to the
\* district; an identifier that resolves nowhere yields the India rectangle.
C8_ResolutionPrecedence ==
    Resolved =>
        /\ BBoxGiven => Result.bounds = BBoxRect
        /\ ~BBoxGiven =>
            /\ gaulLog # <<>>
            /\ SourcesIn(gaulLog) = SubSeq(ResolutionOrder, 1, Len(gaulLog))
            /\ \A i \in 1..(Len(gaulLog) - 1) : gaulLog[i].outcome # "hit"
            /\ gaulLog[Len(gaulLog)].outcome = "hit"
            /\ NamesAKey <=> Len(gaulLog) = 1
            /\ (Len(gaulLog) = 2) =>
                   /\ matched_districts(Args.region, Args.state_name) # {}
                   /\ Result.bounds = bounds_of(matched_districts(Args.region, Args.state_name))
            /\ (Len(gaulLog) = 3) =>
                   /\ state_boundaries(Args.region) # {}
                   /\ Result.bounds = bounds_of(state_boundaries(Args.region))
            /\ (Len(gaulLog) = 4) => Result.bounds = Rectangle(<<680, 60, 970, 370>>)
            /\ (/\ ~NamesAKey
                /\ matched_districts(Args.region, Args.state_name) # {}
                /\ state_boundaries(Args.region) # {}
                /\ Len(gaulLog) >= 2
                /\ gaulLog[2].outcome # "error")
               => Result.bounds = bounds_of(matched_districts(Args.region, Args.state_name))
            /\ (/\ ~NamesAKey
                /\ matched_districts(Args.region, Args.state_name) = {}
                /\ state_boundaries(Args.region) = {})
               => Result.bounds = Rectangle(<<680, 60, 970, 370>>)

\* C8 witness: "Goa" names a district (North Goa) and a state (Goa) and was
\* resolved to the district's bounds, which differ from the state's.
C8_Witness ==
    /\ Resolved
    /\ ~BBoxGiven
    /\ Args.region = s_Goa
    /\ matched_districts(s_Goa, Args.state_name) # {}
    /\ state_boundaries(s_Goa) # {}
    /\ Result.bounds = bounds_of(matched_districts(s_Goa, Args.state_name))
    /\ Result.bounds # bounds_of(state_boundaries(s_Goa))

\* The identifier was resolved by a GAUL district match or a GAUL state match.
ResolvedByGaul ==
    /\ Resolved
    /\ gaulLog # <<>>
    /\ gaulLog[Len(gaulLog)].source \in {"gaul_district", "gaul_state"}

\* C9 as claimed: an identifier resolved by a GAUL district or state match
\* gets zoom hint 8 in every service, the temporal-buildings service included.
C9_GaulZoomIsEight ==
    (ResolvedByGaul /\ Result.zoom # None) => Result.zoom = Some(8)

\* C9 as amended: an identifier resolved by a GAUL district or state match
\* gets zoom hint 8 in every service that computes a zoom hint except the
\* temporal-buildings service, where it gets 10.
C9_GaulZoomPerService ==
    (ResolvedByGaul /\ Result.zoom # None) =>
        Result.zoom = Some(IF Args.service = "open_buildings_temporal" THEN 10 ELSE 8)

\* C9 witness: the temporal-buildings service resolved a GAUL state match.
C9_Witness ==
    /\ ResolvedByGaul
    /\ Args.service = "open_buildings_temporal"
    /\ gaulLog[Len(gaulLog)].source = "gaul_state"
    /\ Result.zoom = Some(10)

\* C10: with no bounding box and a region name spelling "india" in any letter
\* case, the rectangle is [68.0, 6.0, 97.0, 37.0] and the zoom hint is 5.
C10_IndiaAnyCase ==
    (Resolved /\ ~BBoxGiven /\ Args.region \in IndiaSpellings) =>
        /\ Result.bounds = Rectangle(<<680, 60, 970, 370>>)
        /\ Result.zoom # None => Result.zoom = Some(5)

\* C10 witness: "INDIA" without a bounding box was resolved with a zoom hint.
C10_Witness ==
    /\ Resolved
    /\ ~BBoxGiven
    /\ Args.region = s_INDIA
    /\ Result.zoom = Some(5)
    /\ Result.bounds = Rectangle(<<680, 60, 970, 370>>)

-----------------------------------------------------------------------------
(* Properties of the primary service, checked under Spec *)

Answered(endpoint) == response # None /\ request.endpoint = endpoint

Status == response[1].status

Body == response[1].body

\* The nine layer names the specification lists for /analyze-location.
NineLayers == <<"ndvi", "ndbi", "ndwi", "elevation", "slope", "landcover",
                "water_occurrence", "rainfall", "buildings">>

LatOutOfRange == request.body.lat < -90 \/ request.body.lat > 90

LonOutOfRange == request.body.lon < -180 \/ request.body.lon > 180

BufferOutOfRange ==
    /\ request.body.buffer_m # None
    /\ request.body.buffer_m[1] < 100 \/ request.body.buffer_m[1] > 5000

Offenders ==
    IF request.body.layers = None THEN {}
    ELSE {l \in Range(request.body.layers[1]) : l \notin Range(NineLayers)}

\* C1 (as claimed): every rejection of client input by POST /analyze-polygon
\* reaches the caller as a 400: a missing geometry gives 400 "No geometry
\* provided" whatever the layer is, and, for a Polygon geometry the Engine
\* accepts, a layer outside the three supported ones gives 400 with a message
\* naming the layer and the three supported ones.
C1_PolygonRejectionsAre400 ==
    Answered("/analyze-polygon") =>
        /\ request.body.geometry.given = "absent" =>
              /\ Status = 400
              /\ Body.error = [text |-> "No geometry provided"]
        /\ ( /\ request.body.geometry.given = "dict"
             /\ "Polygon" \in {request.body.geometry.type,
                               request.body.geometry.geometry_type}
             /\ request.body.layer # None
             /\ request.body.layer[1] \notin {"buildings", "administrative", "vegetation"}
             /\ request.faults = {} )
           => /\ Status = 400
              /\ Body.error.layer = request.body.layer[1]
              /\ Body.error.supported = <<"buildings", "administrative", "vegetation">>

\* The individual computations of a location analysis that the claim says
\* may fail without failing the request.
IndividualComputation(call) ==
    \/ call.op \in {"stats", "thumb", "class_area"}
    \/ call.op = "roi_area" /\ call.layer = "landcover"

\* C2 (as claimed): when an individual statistic, land-cover bucket or
\* visualization URL of POST /analyze-location fails, the request still
\* answers 200, the failed value is a zero or None, and the other requested
\* layers are returned.
C2_PartialFailureNeverFailsRequest ==
    ( /\ Answered("/analyze-location")
      /\ Status # 422
      /\ request.faults # {}
      /\ \A f \in request.faults : IndividualComputation(f.call) )
    => /\ Status = 200
       /\ \A f \in request.faults :
            /\ f.call.op = "thumb" => Body.earth_engine.visuals[f.call.layer] = None
            /\ f.call.op = "stats" =>
                 \A g \in summary_fields(f.call.layer) :
                     Body.earth_engine.summary[g.field] = Some(0)
            /\ f.call.op \in {"class_area", "roi_area"} =>
                 Body.earth_engine.landcover_histogram[f.call.class] = Some(0)
       /\ Body.earth_engine.visuals["true_color"] # None
            \/ \E f \in request.faults : f.call = Call("thumb", "true_color", "")

\* C3: a latitude outside [-90, 90], a longitude outside [-180, 180] or a
\* buffer outside [100, 5000] makes POST /analyze-location answer 422 with
\* an error for that field and without a single Engine call; a field that is
\* within its limits, the limits themselves included, is never the one
\* blamed, and a request with nothing to blame reaches the Engine.
C3_BoundsRejectedBeforeEngine ==
    Answered("/analyze-location") =>
        /\ (LatOutOfRange \/ LonOutOfRange \/ BufferOutOfRange) =>
              Status = 422 /\ engineCalls = <<>>
        /\ Status = 422 =>
              /\ engineCalls = <<>>
              /\ LatOutOfRange <=> [loc |-> "lat"] \in Body.detail
              /\ LonOutOfRange <=> [loc |-> "lon"] \in Body.detail
              /\ BufferOutOfRange <=> [loc |-> "buffer_m"] \in Body.detail
        /\ (~LatOutOfRange /\ ~LonOutOfRange /\ ~BufferOutOfRange /\ Offenders = {}) =>
              Status # 422 /\ engineCalls # <<>>

\* A latitude one past its limit is rejected with no Engine call, while the
\* longitude and the buffer, both on a limit, are not blamed.
C3_Witness ==
    /\ Answered("/analyze-location")
    /\ request.body.lat = 91
    /\ request.body.lon = -180
    /\ request.body.buffer_m = Some(5000)
    /\ Status = 422
    /\ Body.detail = {[loc |-> "lat"]}
    /\ engineCalls = <<>>

Uncaught(f) ==
    /\ f.kind = "error"
    /\ f.call.layer = "roi" \/ f.call.op = "stats"

\* C5: when an exception leaves the analysis of a validated request, POST
\* /analyze-location answers 500 with the message "Failed to analyze location
\* (<lat>, <lon>): <cause>" carrying the latitude and longitude of that
\* request and the exception as the cause; it answers 500 in no other case.
C5_FailureIs500WithCoordinates ==
    (Answered("/analyze-location") /\ Status # 422) =>
        /\ (\E f \in request.faults : Uncaught(f)) <=> Status = 500
        /\ Status = 500 =>
              /\ Body.error.text = "Failed to analyze location"
              /\ Body.error.lat = request.body.lat
              /\ Body.error.lon = request.body.lon
              /\ Body.error.cause.exc = "EEException"
              /\ \E f \in request.faults : Uncaught(f) /\ Body.error.cause.call = f.call
              /\ Body.error_code = <<"HTTP", 500>>

\* The ROI's area look-up raises for a request at (-90, 180).
C5_Witness ==
    /\ Answered("/analyze-location")
    /\ request.body.lat = -90
    /\ request.body.lon = 180
    /\ request.faults = {[call |-> Call("roi_area", "roi", ""), kind |-> "error"]}
    /\ Status = 500
    /\ Body.error.lat = -90
    /\ Body.error.lon = 180

-----------------------------------------------------------------------------
(* Properties of single operations, checked under SpecCore *)

Ran(fn) == unitResult # None /\ unitCall.fn = fn

Outcome1 == unitResult[1]

\* C11: when the ROI holds no building, and likewise when counting the
\* buildings fails, the building analysis raises nothing and returns exactly
\* the empty structure: every summary count and area 0, the urban context
\* 0 / 0 / 25 / 0, no individual building, the four visualization URLs None.
C11_EmptyBuildingsCanonical ==
    ( /\ Ran("analyze_buildings_in_area")
      /\ unitCall.args.eng.count \in {None, Some(0)} )
    => /\ ~Outcome1.raised
       /\ Outcome1.value =
            [building_summary |->
                [total_buildings |-> 0, analyzed_buildings |-> 0,
                 total_building_area_sqm |-> 0, average_building_area_sqm |-> 0,
                 max_building_area_sqm |-> 0, min_building_area_sqm |-> 0],
             urban_context |->
                [nighttime_lights_mean |-> 0, population_density_mean |-> 0,
                 land_surface_temp_mean |-> 25 * 1000000,
                 urban_heat_island_intensity |-> 0],
             individual_buildings |-> <<>>,
             visualization_urls |->
                [buildings_url |-> None, nightlights_url |-> None,
                 population_url |-> None, urban_heat_url |-> None]]

\* The count raised while every other Engine call would have failed too,
\* and the empty structure came back.
C11_Witness ==
    /\ Ran("analyze_buildings_in_area")
    /\ unitCall.args.eng.count = None
    /\ unitCall.args.eng.area = "error"
    /\ unitCall.args.eng.list = "error"
    /\ unitCall.args.eng.url = "error"
    /\ ~Outcome1.raised
    /\ Outcome1.value.urban_context.land_surface_temp_mean = 25 * 1000000
    /\ Outcome1.value.individual_buildings = <<>>

\* C12 (as claimed): safe_round never raises and always returns a number:
\* 0.0 for None and for a value that cannot be made a float, otherwise the
\* value rounded to the given decimals.
C12_SafeRoundNeverRaises ==
    Ran("safe_round") =>
        /\ ~Outcome1.raised
        /\ (unitCall.args.value = None \/ ~float(unitCall.args.value).ok)
              => Outcome1.value = 0
        /\ (unitCall.args.value # None /\ float(unitCall.args.value).ok)
              => Outcome1.value = round(float(unitCall.args.value).value,
                                        unitCall.args.decimals)

\* The eleven land-cover classes of the specification.
ElevenClasses ==
    {"tree_cover", "shrubland", "grassland", "cropland", "built_up",
     "bare_sparse_vegetation", "snow_ice", "permanent_water_bodies",
     "herbaceous_wetland", "mangroves", "moss_lichen"}

\* The Engine call for the class, or its ROI-area call, misbehaved.
ReductionFailed(c) ==
    \E f \in unitCall.args.faults : f.call.layer = "landcover" /\ f.call.class = c

\* C13: whatever the Engine answers for the individual reductions, the
\* land-cover histogram has exactly the 11 class keys, no value is negative,
\* and a class whose reduction failed, returned no data or found no pixel
\* reports exactly 0.0.
C13_HistogramTotal ==
    Ran("calculate_landcover_histogram") =>
        /\ ~Outcome1.raised
        /\ DOMAIN Outcome1.value = ElevenClasses
        /\ \A c \in ElevenClasses \cap DOMAIN Outcome1.value :
              /\ Outcome1.value[c] \in Nat
              /\ (ReductionFailed(c) \/ EngineClassArea(c, unitCall.args.buffer_m) = 0)
                    => Outcome1.value[c] = 0

\* The reduction of a class with pixels failed and the class reports 0.0
\* while another class reports its share.
C13_Witness ==
    /\ Ran("calculate_landcover_histogram")
    /\ unitCall.args.faults =
          {[call |-> Call("class_area", "landcover", "built_up"), kind |-> "error"]}
    /\ EngineClassArea("built_up", unitCall.args.buffer_m) > 0
    /\ Outcome1.value["built_up"] = 0
    /\ Outcome1.value["tree_cover"] > 0
    /\ Outcome1.value["moss_lichen"] = 0

\* The four density tables of the specification, as
\* <<non-vegetated, low, moderate, dense>>.
DensityOf(d) ==
    <<d.non_vegetated, d.low_vegetation, d.moderate_vegetation, d.dense_vegetation>>

\* C14: the vegetation-density table is chosen by strict upper bounds on the
\* mean NDVI: below 0.2 it is {60,25,10,5}, from 0.2 to below 0.4
\* {30,40,20,10}, from 0.4 to below 0.6 {15,25,35,25} and from 0.6 on
\* {5,15,30,50}, so that 0.19, 0.2, 0.4 and 0.6 give these four tables in
\* turn and every mean selects exactly one of them.
C14_DensityByStrictBounds ==
    (Ran("analyze_viirs_vegetation") /\ unitCall.args.ndvi.kind = "ok") =>
        LET m == unitCall.args.ndvi.mean
            t == DensityOf(Outcome1.value.vegetation_distribution)
        IN  /\ t \in {<<60, 25, 10, 5>>, <<30, 40, 20, 10>>,
                      <<15, 25, 35, 25>>, <<5, 15, 30, 50>>}
            /\ (t = <<60, 25, 10, 5>>) <=> (m < 200000)
            /\ (t = <<30, 40, 20, 10>>) <=> (200000 <= m /\ m < 400000)
            /\ (t = <<15, 25, 35, 25>>) <=> (400000 <= m /\ m < 600000)
            /\ (t = <<5, 15, 30, 50>>) <=> (600000 <= m)
            /\ (m = 190000) => t = <<60, 25, 10, 5>>
            /\ (m = 200000) => t = <<30, 40, 20, 10>>
            /\ (m = 400000) => t = <<15, 25, 35, 25>>
            /\ (m = 600000) => t = <<5, 15, 30, 50>>

\* A mean NDVI of exactly 0.2 was given the second table.
C14_Witness ==
    /\ Ran("analyze_viirs_vegetation")
    /\ unitCall.args.ndvi = [kind |-> "ok", mean |-> 200000]
    /\ DensityOf(Outcome1.value.vegetation_distribution) = <<30, 40, 20, 10>>

\* C15: for a given list of intersecting administrative features, the
\* hierarchy (country, state, district and the "Country > State > District"
\* path) is built from the first feature of the list, whichever feature
\* overlaps the geometry most.
C15_HierarchyFromFirstFeature ==
    ( /\ Ran("analyze_administrative_boundaries")
      /\ unitCall.args.features # <<>>
      /\ unitCall.args.fails = "" )
    => LET first == unitCall.args.features[1]
           name(prop) == IF prop = None THEN "Unknown" ELSE prop[1]
       IN  Outcome1.value.administrative_hierarchy =
              Some([country |-> name(first.ADM0_NAME),
                    state_province |-> name(first.ADM1_NAME),
                    district_county |-> name(first.ADM2_NAME),
                    full_path |-> <<name(first.ADM0_NAME), " > ", name(first.ADM1_NAME),
                                    " > ", name(first.ADM2_NAME)>>])

\* The second feature of the list overlaps more than the first, and the
\* hierarchy names the first.
C15_Witness ==
    /\ Ran("analyze_administrative_boundaries")
    /\ unitCall.args.fails = ""
    /\ Len(unitCall.args.features) = 2
    /\ unitCall.args.features[1].ADM2_NAME = Some("Bangalore Urban")
    /\ unitCall.args.features[2].area_ha > unitCall.args.features[1].area_ha
    /\ Outcome1.value.administrative_hierarchy # None
    /\ Outcome1.value.administrative_hierarchy[1].district_county = "Bangalore Urban"

\* Some stage of initialization fails: the credentials, the session or the
\* dataset probe.
StageFails(args) ==
    \/ get_gee_credentials(args.config).raised
    \/ args.session.initialize # "ok"
    \/ args.session.probe # "ok"

InlineSet(cfg) == cfg.GEE_SERVICE_ACCOUNT_KEY_JSON \notin {"unset", "empty"}

\* C17: credentials are resolved by strict precedence. A set JSON string
\* alone is used: malformed JSON raises ValueError carrying the parse error,
\* and nothing is read from the file. Only with the string unset is the key
\* file used, when it exists; otherwise FileNotFoundError naming the
\* expected path is raised.
C17_CredentialPrecedence ==
    Ran("get_gee_credentials") =>
        LET cfg == unitCall.args.config
        IN  /\ InlineSet(cfg) =>
                 /\ (~Outcome1.raised) => (Outcome1.value.origin = "info")
                 /\ (cfg.GEE_SERVICE_ACCOUNT_KEY_JSON = "malformed") =>
                       /\ Outcome1.raised
                       /\ Outcome1.exc.type = "ValueError"
                       /\ Outcome1.exc.message[2] = "JSONDecodeError"
                 /\ \A e \in BOOLEAN, f \in {"key", "not_a_key"} :
                       Outcome1 = get_gee_credentials(
                                     [cfg EXCEPT !.path_exists = e, !.key_file = f])
            /\ (~InlineSet(cfg) /\ cfg.path_exists) =>
                 /\ Outcome1.raised = (cfg.key_file # "key")
                 /\ (~Outcome1.raised) => (Outcome1.value.origin = "file")
                 /\ Outcome1.raised => (Outcome1.exc.type # "FileNotFoundError")
            /\ (~InlineSet(cfg) /\ ~cfg.path_exists) =>
                 /\ Outcome1.raised
                 /\ Outcome1.exc.type = "FileNotFoundError"
                 /\ Outcome1.exc.message[2] = cfg.GEE_SERVICE_ACCOUNT_KEY_PATH

\* Malformed JSON with a good key file present: the error is raised and the
\* file is not used.
C17_Witness ==
    /\ Ran("get_gee_credentials")
    /\ unitCall.args.config.GEE_SERVICE_ACCOUNT_KEY_JSON = "malformed"
    /\ unitCall.args.config.path_exists
    /\ unitCall.args.config.key_file = "key"
    /\ Outcome1.raised
    /\ Outcome1.exc.type = "ValueError"

\* C19: the JSON body of GET /health has a "status" field, when the Engine
\* probe succeeds (200) and when it fails (503).
C19_HealthBodyHasStatus ==
    Ran("health_check") =>
        /\ Outcome1.value.status = (IF unitCall.args.probe = "ok" THEN 200 ELSE 503)
        /\ "status" \in DOMAIN Outcome1.value.body

\* The body carries lat and lon and nothing else.
OnlyLatLon == request.body.buffer_m = None /\ request.body.layers = None

\* The layers the Engine was asked about, the ROI and the true-color visual
\* left aside.
LayersWorked ==
    {engineCalls[i].layer : i \in DOMAIN engineCalls} \ {"roi", "true_color"}

\* C21: a LocationRequest supplying only lat and lon is populated with
\* buffer_m = 750 and layers = ["ndvi", "elevation", "slope", "landcover"],
\* and that is what the analysis then runs with.
C21_DefaultsPopulated ==
    (Answered("/analyze-location") /\ OnlyLatLon /\ Status # 422) =>
        /\ LocationRequest(request.body).value.buffer_m = 750
        /\ LocationRequest(request.body).value.layers =
              <<"ndvi", "elevation", "slope", "landcover">>
        /\ Status = 200 =>
              /\ Body.earth_engine.roi.buffer_meters = 750
              /\ LayersWorked = {"ndvi", "elevation", "slope", "landcover"}

\* A body of lat = -90 and lon = 77 alone, analysed with the defaults.
C21_Witness ==
    /\ Answered("/analyze-location")
    /\ OnlyLatLon
    /\ request.body.lat = -90
    /\ Status = 200
    /\ Body.earth_engine.roi.buffer_meters = 750

Rank(layer) ==
    IF layer = "roi" THEN 0
    ELSE IF layer = "true_color" THEN Len(NineLayers) + 1
    ELSE CHOOSE i \in DOMAIN NineLayers : NineLayers[i] = layer

\* C23: within one /analyze-location request the Engine work, and with it
\* the merging of each layer's results, is done in the order ndvi, ndbi,
\* ndwi, elevation, slope, landcover, water_occurrence, rainfall, buildings
\* and then the true-color visual, each layer once, whatever the order or
\* the repetition of the names in the layers list.
C23_FixedLayerOrder ==
    (Answered("/analyze-location") /\ Status # 422) =>
        /\ \A i, j \in DOMAIN engineCalls :
              i < j => /\ Rank(engineCalls[i].layer) <= Rank(engineCalls[j].layer)
                       /\ engineCalls[i] # engineCalls[j]
        /\ Status = 200 =>
              /\ LayersWorked = Range(LocationRequest(request.body).value.layers)
              /\ engineCalls[Len(engineCalls)].layer = "true_color"

\* landcover named before ndvi: the NDVI work comes first all the same.
C23_Witness ==
    /\ Answered("/analyze-location")
    /\ request.body.layers = Some(<<"landcover", "ndvi">>)
    /\ Status = 200
    /\ \E i, j \in DOMAIN engineCalls :
          /\ i < j
          /\ engineCalls[i].layer = "ndvi"
          /\ engineCalls[j].layer = "landcover"


\* A time-series endpoint has answered.
RanTimeSeries == Ran("get_temporal_time_series") \/ Ran("get_time_series")

\* The request names a band its service has and the Engine does not fail.
TimeSeriesServed ==
    /\ ~unitCall.args.fails
    /\ unitCall.fn = "get_temporal_time_series" => unitCall.args.band = "building_height"
    /\ unitCall.fn = "get_time_series" => unitCall.args.band = "NDVI"

\* The statistics block is min, max and sum/len of the emitted values.
StatisticsOfEmitted ==
    LET values == Outcome1.value.body.time_series.values
        stats == Outcome1.value.body.statistics
    IN  IF values = <<>>
        THEN stats = [min |-> None, max |-> None, mean |-> None]
        ELSE /\ stats.min[1] \in Range(values)
             /\ stats.max[1] \in Range(values)
             /\ \A i \in DOMAIN values : stats.min[1] <= values[i] /\ values[i] <= stats.max[1]
             /\ stats.mean[1].len = Len(values)
             /\ stats.mean[1].sum = sum(values)

\* C24 as stated: a served time-series request is answered with one
\* (date, mean) pair per image of the filtered collection, the dates in
\* chronological order, and min, max and mean computed over that series.
C24_OnePairPerImageChronological ==
    (RanTimeSeries /\ TimeSeriesServed) =>
        /\ Outcome1.value.status = 200
        /\ Len(Outcome1.value.body.time_series.dates) = Len(unitCall.args.features)
        /\ \A i, j \in DOMAIN Outcome1.value.body.time_series.dates :
              i < j => Outcome1.value.body.time_series.dates[i]
                          <= Outcome1.value.body.time_series.dates[j]
        /\ StatisticsOfEmitted

\* C24, amended: a time-series answer of status 200 carries one (date, mean)
\* pair per image whose mean is not null, in the order the Engine lists the
\* images; data_points counts those pairs and min, max and mean are computed
\* over exactly their values, null when there is none.  A served request is
\* answered 200 unless a null mean arrives as a missing property.
C24_SeriesOfNonNullImages ==
    RanTimeSeries =>
        LET features == unitCall.args.features
            kept == SelectSeq(features, LAMBDA f : f.mean # None)
        IN  /\ Outcome1.value.status = 200 =>
                /\ Outcome1.value.body.time_series.dates =
                      [i \in DOMAIN kept |-> kept[i].date]
                /\ Outcome1.value.body.time_series.values =
                      [i \in DOMAIN kept |-> kept[i].mean[1]]
                /\ Outcome1.value.body.data_points = Len(kept)
                /\ StatisticsOfEmitted
            /\ (TimeSeriesServed /\ Outcome1.value.status # 200) =>
                /\ unitCall.args.nulls = "absent"
                /\ Len(kept) < Len(features)

\* Three images listed out of date order, the middle one without data: two
\* pairs come back, later date first.
C24_Witness ==
    /\ Ran("get_temporal_time_series")
    /\ unitCall.args.features =
          <<ImageFeature(2, Some(700)), ImageFeature(3, None), ImageFeature(1, Some(250))>>
    /\ Outcome1.value.status = 200
    /\ Outcome1.value.body.time_series.dates = <<2, 1>>
    /\ Outcome1.value.body.statistics.mean = Some([sum |-> 950, len |-> 2])


\* The sampled buildings that carry an area, and the two lists of the answer.
SampledAreas ==
    {unitCall.args.features[i].area_in_meters[1] :
        i \in {j \in DOMAIN unitCall.args.features :
                 unitCall.args.features[j].area_in_meters # None}}

\* How many sampled buildings satisfying keep have an area within [lo, hi].
Sampled(lo, hi, keep(_)) ==
    Cardinality({i \in DOMAIN unitCall.args.features :
        LET area == unitCall.args.features[i].area_in_meters
        IN  area # None /\ lo <= area[1] /\ area[1] <= hi /\ keep(area[1])})

Listed(list, lo, hi) ==
    Cardinality({i \in DOMAIN list : lo <= list[i].area /\ list[i].area <= hi})

AreasAnalyzed ==
    /\ Ran("analyze_building_areas")
    /\ Outcome1.value.status = 200
    /\ Outcome1.value.body.success

\* list holds the (up to) five largest, largest first, of the sampled
\* buildings satisfying keep.
FiveLargestOf(list, keep(_)) ==
    /\ \A i, j \in DOMAIN list : i < j => list[i].area >= list[j].area
    /\ \A t \in SampledAreas \cup {0} :
          Listed(list, t, 1000000) = Min2(5, Sampled(t, 1000000, keep))

FiveSmallestOf(list, keep(_)) ==
    /\ \A i, j \in DOMAIN list : i < j => list[i].area <= list[j].area
    /\ \A t \in SampledAreas \cup {1000000} :
          Listed(list, 0, t) = Min2(5, Sampled(0, t, keep))

\* C25 as stated: the answer lists the five largest and the five smallest of
\* the sampled buildings by area, all of them when fewer than five were
\* sampled, whatever their sizes.
C25_FiveLargestAndSmallestOfSample ==
    AreasAnalyzed =>
        /\ FiveLargestOf(Outcome1.value.body.notable_buildings.largest_buildings,
                         LAMBDA a : TRUE)
        /\ FiveSmallestOf(Outcome1.value.body.notable_buildings.smallest_buildings,
                          LAMBDA a : TRUE)

\* C25, amended: largest_buildings holds the five largest, largest first, of
\* the sampled buildings of more than 1000 m2 (all of them when fewer than
\* five), and smallest_buildings the five smallest, smallest first, of the
\* sampled buildings of less than 100 m2; a building from 100 to 1000 m2 is
\* in neither list.
C25_FiveOfThoseBeyondThresholds ==
    AreasAnalyzed =>
        /\ FiveLargestOf(Outcome1.value.body.notable_buildings.largest_buildings,
                         LAMBDA a : a > 1000)
        /\ FiveSmallestOf(Outcome1.value.body.notable_buildings.smallest_buildings,
                          LAMBDA a : a < 100)

\* Six buildings above 1000 m2 and one of 500 m2: five are listed as largest,
\* the 1100 m2 one is cut, and nothing is listed as smallest.
C25_Witness ==
    /\ AreasAnalyzed
    /\ Len(unitCall.args.features) = 7
    /\ unitCall.args.features[1].area_in_meters = Some(1100)
    /\ unitCall.args.features[7].area_in_meters = Some(500)
    /\ Len(Outcome1.value.body.notable_buildings.largest_buildings) = 5
    /\ Outcome1.value.body.notable_buildings.largest_buildings[5].area = 1200
    /\ Outcome1.value.body.notable_buildings.smallest_buildings = <<>>


\* C26: the count/density answer for a region of positive area carries a
\* numeric buildings-per-km2 figure whenever the count of buildings is exact,
\* and "Cannot calculate" only when it is not.
C26_DensityNumericIffExactCount ==
    (/\ Ran("get_building_count_statistics")
     /\ Outcome1.value.status = 200
     /\ unitCall.args.area[1] > 0) =>
        (Outcome1.value.body.building_statistics.buildings_per_sq_km.number
            <=> Outcome1.value.body.building_statistics.count_is_exact)


\* C27: when the reduction of the elevation band answers with both bounds
\* under their keys, the rollup's terrain relief is max minus min if both
\* are numbers, and the text "N/A" exactly when one of them is null.
C27_ReliefIsMaxMinusMin ==
    (/\ Ran("get_comprehensive_analysis")
     /\ unitCall.args.fails = ""
     /\ {"min", "max"} \subseteq DOMAIN unitCall.args.stats["elv"]) =>
        LET elv == unitCall.args.stats["elv"]
            relief == Outcome1.value.body.analysis_summary.terrain_relief_m
        IN  /\ Outcome1.value.status = 200
            /\ IF elv.min # None /\ elv.max # None
               THEN relief.kind = "num" /\ relief.num = elv.max[1] - elv.min[1]
               ELSE relief.kind = "str" /\ relief.text = "N/A"


\* The round trips that fetched the ROI area for the land-cover histogram.
HistogramAreaFetches ==
    {i \in DOMAIN engineCalls :
        engineCalls[i].op = "roi_area" /\ engineCalls[i].layer = "landcover"}

\* C28: one run of the land-cover histogram fetches the ROI area from the
\* Engine at most once, however many of the 11 classes it divides by it.
C28_RoiAreaFetchedOnce ==
    Answered("/analyze-location") => Cardinality(HistogramAreaFetches) <= 1


\* C30: in every building analysis result, the analyzed_buildings figure of
\* the summary is the number of entries of individual_buildings.
C30_AnalyzedEqualsIndividual ==
    Ran("analyze_buildings_in_area") =>
        Outcome1.value.building_summary.analyzed_buildings
            = Len(Outcome1.value.individual_buildings)


\* The handler that ran found a client parameter it rejects with a 400: an
\* inverted period, a Landsat band or a temporal-buildings band it does not
\* know.
RejectsParameter ==
    \/ Ran("get_loss_by_year") /\ unitCall.args.start_year > unitCall.args.end_year
    \/ Ran("get_landsat_composites")
          /\ \E i \in DOMAIN unitCall.args.bands : unitCall.args.bands[i] \notin landsat_bands
    \/ Ran("get_temporal_time_series") /\ unitCall.args.band \notin valid_bands

\* C29: when a handler of a standalone service rejects a client parameter by
\* raising an HTTP 400, the client receives status 400, not 500.
C29_RejectionReaches400 ==
    RejectsParameter => Outcome1.value.status = 400

-----------------------------------------------------------------------------
(* Properties of the standalone services, checked under SpecServices *)

Done(h) == handlers[h].pc = "done"
Req(h) == handlers[h].req
Resp(h) == handlers[h].response[1]

\* The features the Engine filter behind the lookup of q returns.
LookedUp(q) ==
    IF q.endpoint = "/gaul-boundaries" THEN filtered_boundaries(q.state_filter)
    ELSE filtered_boundaries(q.state_name)

\* A boundaries lookup that ran, with the Engine answering, to zero features.
ZeroFeatures(h) ==
    /\ Done(h)
    /\ Req(h).endpoint \in GaulEndpoints
    /\ Req(h).fails \in {"", "states"}
    /\ LookedUp(Req(h)) = {}

\* C18 as stated: in the administrative-boundaries service a lookup whose
\* Engine filter returns zero features is answered by a structured "no
\* results" response and never by an HTTP error.
C18_ZeroFeaturesNeverAnError ==
    \A h \in RequestIds :
        (ZeroFeatures(h) /\ Req(h).fails = "") =>
            /\ Resp(h).status = 200
            /\ "success" \in DOMAIN Resp(h).body

\* C18, amended: zero features are answered with 200 and a structured body
\* by the boundary listing (success false and a message) and by the district
\* listing (success true and an empty list), while the district-by-state
\* drill-down answers 404 with the list of the available states, or 500
\* when listing those states fails.
C18_ZeroFeaturesPerEndpoint ==
    \A h \in RequestIds :
        ZeroFeatures(h) =>
            /\ Req(h).endpoint = "/gaul-boundaries" =>
                  /\ Resp(h).status = 200
                  /\ Resp(h).body.success = FALSE
                  /\ Resp(h).body.message[2] = Req(h).state_filter
            /\ Req(h).endpoint = "/gaul-districts" =>
                  /\ Resp(h).status = 200
                  /\ Resp(h).body.success = TRUE
                  /\ Resp(h).body.total_districts = 0
                  /\ Resp(h).body.districts = {}
            /\ (Req(h).endpoint = "/gaul-state-districts" /\ Req(h).fails = "") =>
                  /\ Resp(h).status = 404
                  /\ Resp(h).body.detail.state_name = Req(h).state_name[1]
                  /\ Resp(h).body.detail.available_states =
                        {s_Goa, s_Bihar, s_Punjab, s_Maharashtra}
            /\ (Req(h).endpoint = "/gaul-state-districts" /\ Req(h).fails = "states") =>
                  Resp(h).status = 500

\* An unknown state asked of the drill-down and of the district listing at
\* the same time: 404 for the one, an empty list for the other.
C18_Witness ==
    /\ ZeroFeatures(1)
    /\ ZeroFeatures(2)
    /\ Req(1).endpoint = "/gaul-state-districts"
    /\ Req(1).fails = ""
    /\ Resp(1).status = 404
    /\ Req(2).endpoint = "/gaul-districts"
    /\ Resp(2).status = 200

\* C20: handlers write no shared state, so under any interleaving each
\* request ends with the response and the persisted output it has when run
\* alone: the response its handler computes from the request, the clock
\* reading and the outcome of the save, and, for a saved map, the file named
\* in the response holding the map of that request.
C20_ConcurrentRequestsAsAlone ==
    \A h \in RequestIds :
        Done(h) =>
            /\ Resp(h) = handle(Req(h),
                                IF generates_map(Req(h))
                                THEN Some(map_result(Req(h), handlers[h].filename[1],
                                                     handlers[h].saved))
                                ELSE None)
            /\ handlers[h].saved =>
                  /\ handlers[h].filename[1] \in DOMAIN files
                  /\ files[handlers[h].filename[1]] = map_html(Req(h))

=============================================================================
